---- MODULE Spec2Model ----
(***************************************************************************)
(* any-cli-mcp-server: recursive discovery of a command tree from help     *)
(* text (discoverAllCommands), the heuristic help-text parser              *)
(* (parseHelpText), the flattening of the tree into tools                  *)
(* (convertCommandToTools) and the reconstruction of an invocation from a  *)
(* tool call (executeCommand).                                             *)
(*                                                                         *)
(* A JavaScript string is modelled as a sequence of one-character strings, *)
(* so that split, join, trim and the regular expressions of the source are *)
(* computed character by character.  A help text is the sequence of its    *)
(* lines (helpText.split('\n')); the empty text '' is <<>>.                *)
(***************************************************************************)
EXTENDS Integers, Sequences, FiniteSets, TLC

\* ------------------------------------------------------------------------
\* Characters and strings
\* ------------------------------------------------------------------------
LowerChars ==
  <<"a","b","c","d","e","f","g","h","i","j","k","l","m",
    "n","o","p","q","r","s","t","u","v","w","x","y","z">>

UpperChars ==
  <<"A","B","C","D","E","F","G","H","I","J","K","L","M",
    "N","O","P","Q","R","S","T","U","V","W","X","Y","Z">>

DigitChars == {"0","1","2","3","4","5","6","7","8","9"}

Range(s) == {s[i] : i \in DOMAIN s}

IsLower(c) == c \in Range(LowerChars)

IsUpper(c) == c \in Range(UpperChars)

\* \s of the regular expressions
IsWs(c) == c \in {" ", "\t", "\n"}

\* \w of the regular expressions
IsWordChar(c) == IsLower(c) \/ IsUpper(c) \/ c \in DigitChars \/ c = "_"

\* [a-zA-Z0-9_-]
IsIdentChar(c) == IsWordChar(c) \/ c = "-"

toLowerChar(c) ==
  IF IsUpper(c) THEN LowerChars[CHOOSE i \in DOMAIN UpperChars : UpperChars[i] = c] ELSE c

toUpperChar(c) ==
  IF IsLower(c) THEN UpperChars[CHOOSE i \in DOMAIN LowerChars : LowerChars[i] = c] ELSE c

RECURSIVE toLowerCase(_)
toLowerCase(s) ==
  IF s = <<>> THEN <<>> ELSE <<toLowerChar(s[1])>> \o toLowerCase(Tail(s))

RECURSIVE toUpperCase(_)
toUpperCase(s) ==
  IF s = <<>> THEN <<>> ELSE <<toUpperChar(s[1])>> \o toUpperCase(Tail(s))

\* s.substring(from - 1): the characters of s from position `from` on
Drop(s, from) == SubSeq(s, from, Len(s))

\* the number of leading characters of s that satisfy the class
RECURSIVE LeadWs(_)
LeadWs(s) == IF s # <<>> /\ IsWs(s[1]) THEN 1 + LeadWs(Tail(s)) ELSE 0

RECURSIVE LeadIdent(_)
LeadIdent(s) == IF s # <<>> /\ IsIdentChar(s[1]) THEN 1 + LeadIdent(Tail(s)) ELSE 0

RECURSIVE LeadWord(_)
LeadWord(s) == IF s # <<>> /\ IsWordChar(s[1]) THEN 1 + LeadWord(Tail(s)) ELSE 0

RECURSIVE TrailWs(_)
TrailWs(s) ==
  IF s # <<>> /\ IsWs(s[Len(s)]) THEN 1 + TrailWs(SubSeq(s, 1, Len(s) - 1)) ELSE 0

trimStart(s) == Drop(s, LeadWs(s) + 1)

trim(s) == LET t == trimStart(s) IN SubSeq(t, 1, Len(t) - TrailWs(t))

startsWith(s, p) == Len(s) >= Len(p) /\ SubSeq(s, 1, Len(p)) = p

endsWith(s, p) == Len(s) >= Len(p) /\ SubSeq(s, Len(s) - Len(p) + 1, Len(s)) = p

\* s.includes(p)
includes(s, p) == \E i \in 1..(Len(s) - Len(p) + 1) : SubSeq(s, i, i + Len(p) - 1) = p

\* parts.join(sep)
RECURSIVE join(_, _)
join(parts, sep) ==
  IF parts = <<>> THEN <<>>
  ELSE IF Len(parts) = 1 THEN parts[1]
  ELSE parts[1] \o sep \o join(Tail(parts), sep)

\* s.split(c) for a one-character separator c
RECURSIVE split(_, _)
split(s, c) ==
  IF \A i \in DOMAIN s : s[i] # c THEN <<s>>
  ELSE LET k == CHOOSE i \in DOMAIN s : s[i] = c /\ \A j \in 1..(i - 1) : s[j] # c
       IN  <<SubSeq(s, 1, k - 1)>> \o split(Drop(s, k + 1), c)

\* arr.filter(p => p !== x)
RECURSIVE filterNe(_, _)
filterNe(arr, x) ==
  IF arr = <<>> THEN <<>>
  ELSE (IF arr[1] # x THEN <<arr[1]>> ELSE <<>>) \o filterNe(Tail(arr), x)

\* the text with its lines joined by '\n'
Flat(text) == join(text, <<"\n">>)

Min(a, b) == IF a < b THEN a ELSE b

\* ------------------------------------------------------------------------
\* parsingHelpers.ts
\* ------------------------------------------------------------------------

\* the value `undefined` (no string is a one-element sequence of this word)
Undefined == <<"undefined">>

\* the alternatives of PATTERNS.COMMAND_SECTION in the order the regular
\* expression tries them (`Commands?` is greedy: with the s first), lower-cased
\* because the expression is case-insensitive
SectionWords ==
  << <<"c","o","m","m","a","n","d","s">>,
     <<"c","o","m","m","a","n","d">>,
     <<"s","u","b","c","o","m","m","a","n","d","s">>,
     <<"s","u","b","c","o","m","m","a","n","d">>,
     <<"s","u","b","g","r","o","u","p","s">>,
     <<"a","v","a","i","l","a","b","l","e"," ","c","o","m","m","a","n","d","s">>,
     <<"a","v","a","i","l","a","b","l","e"," ","c","o","m","m","a","n","d">>,
     <<"c","o","r","e"," ","c","o","m","m","a","n","d","s">>,
     <<"a","c","t","i","o","n","s"," ","c","o","m","m","a","n","d","s">>,
     <<"a","l","i","a","s"," ","c","o","m","m","a","n","d","s">>,
     <<"a","d","d","i","t","i","o","n","a","l"," ","c","o","m","m","a","n","d","s">>,
     <<"g","e","n","e","r","a","l"," ","c","o","m","m","a","n","d","s">>,
     <<"t","a","r","g","e","t","e","d"," ","c","o","m","m","a","n","d","s">> >>

\* s.match(PATTERNS.COMMAND_SECTION) for a string s: ^ anchors at the start of
\* s, \s* skips the leading white space (line breaks included), then one of
\* the words.  [ok, word]: word is capture group 1.
MatchCommandSection(s) ==
  LET t    == trimStart(s)
      hits == {k \in DOMAIN SectionWords :
                 /\ Len(t) >= Len(SectionWords[k])
                 /\ toLowerCase(SubSeq(t, 1, Len(SectionWords[k]))) = SectionWords[k]}
  IN  IF hits = {} THEN [ok |-> FALSE, word |-> <<>>]
      ELSE LET k == CHOOSE k \in hits : \A j \in hits : k <= j
           IN  [ok |-> TRUE, word |-> SubSeq(t, 1, Len(SectionWords[k]))]

\* line.match(PATTERNS.COMMAND_ENTRY), /^\s+([a-z][a-zA-Z0-9_-]*)\s*:?\s+(.+)/
\* [ok, name, rest]: capture groups 1 and 2
MatchCommandEntry(line) ==
  LET w    == LeadWs(line)
      s1   == Drop(line, w + 1)
      n    == LeadIdent(s1)
      r    == Drop(s1, n + 1)
      a    == LeadWs(r)
      r1   == Drop(r, a + 1)
      r2   == IF r1 = <<>> THEN <<>> ELSE Tail(r1)
      b    == LeadWs(r2)
      r3   == Drop(r2, b + 1)
      no   == [ok |-> FALSE, name |-> <<>>, rest |-> <<>>]
      yes(rest) == [ok |-> TRUE, name |-> SubSeq(s1, 1, n), rest |-> rest]
  IN  IF w = 0 \/ s1 = <<>> \/ ~IsLower(s1[1]) THEN no
      \* with the optional colon
      ELSE IF r1 # <<>> /\ r1[1] = ":" /\ b >= 1 /\ r3 # <<>> THEN yes(r3)
      ELSE IF r1 # <<>> /\ r1[1] = ":" /\ b >= 2 THEN yes(<<r2[b]>>)
      \* without it: the white space is shared by \s* and \s+
      ELSE IF a >= 1 /\ r1 # <<>> THEN yes(r1)
      ELSE IF a >= 2 THEN yes(<<r[a]>>)
      ELSE no

\* line.match(PATTERNS.ARGUMENT_ENTRY), /^\s*[<[](.+?)[>\]]\s+(.+)/
\* [ok, name, rest]
MatchArgumentEntry(line) ==
  LET s  == trimStart(line)
      no == [ok |-> FALSE, name |-> <<>>, rest |-> <<>>]
      \* the closing bracket at position k is followed by \s+(.+)
      tailOk(k) ==
        LET r == Drop(s, k + 1)
            b == LeadWs(r)
        IN  s[k] \in {">", "]"} /\ b >= 1 /\ (Drop(r, b + 1) # <<>> \/ b >= 2)
      tailRest(k) ==
        LET r == Drop(s, k + 1)
            b == LeadWs(r)
        IN  IF Drop(r, b + 1) # <<>> THEN Drop(r, b + 1) ELSE <<r[b]>>
      ks == {k \in 3..Len(s) : tailOk(k)}
  IN  IF s = <<>> \/ s[1] \notin {"<", "["} \/ ks = {} THEN no
      ELSE LET k == CHOOSE k \in ks : \A j \in ks : k <= j
           IN  [ok |-> TRUE, name |-> SubSeq(s, 2, k - 1), rest |-> tailRest(k)]

\* parseHelpSections(helpText): lines[i..] scanned with the sections closed so
\* far and the open section (<<>> for null, else a one-element sequence)
RECURSIVE SectionsFrom(_, _, _, _)
SectionsFrom(lines, i, sections, current) ==
  IF i > Len(lines) THEN sections \o current
  ELSE LET line == lines[i]
           h    == MatchCommandSection(line)
       IN  IF h.ok
           THEN SectionsFrom(lines, i + 1, sections \o current,
                             << [name |-> toLowerCase(h.word), content |-> <<>>] >>)
           ELSE IF current # <<>> /\ trim(line) # <<>>
           THEN SectionsFrom(lines, i + 1, sections,
                             << [current[1] EXCEPT !.content = Append(@, line)] >>)
           ELSE SectionsFrom(lines, i + 1, sections, current)

parseHelpSections(helpText) ==
  IF helpText = <<>> THEN <<>> ELSE SectionsFrom(helpText, 1, <<>>, <<>>)

\* the while loop of extractMultiLineDescription; i is the 1-based index of
\* the next line to look at
RECURSIVE ContinuationFrom(_, _, _)
ContinuationFrom(lines, i, description) ==
  IF i > Len(lines) THEN [description |-> description, endIndex |-> i - 1]
  ELSE LET nextLine    == lines[i]
           nextTrimmed == trim(nextLine)
       IN  IF nextTrimmed = <<>>
              \/ MatchCommandEntry(nextLine).ok
              \/ MatchCommandSection(nextLine).ok
           THEN [description |-> description, endIndex |-> i - 1]
           ELSE IF LeadWs(nextLine) >= 1 /\ nextTrimmed # <<>>
           THEN ContinuationFrom(lines, i + 1, description \o <<" ">> \o nextTrimmed)
           ELSE [description |-> description, endIndex |-> i - 1]

\* a variant that reports the index of the line it stopped at as endIndex (a
\* faulty variant of extractMultiLineDescription)
extractWithEndAtStop(lines, startIndex, initialDescription) ==
  [ContinuationFrom(lines, startIndex + 1, initialDescription) EXCEPT !.endIndex = @ + 1]

\* extractMultiLineDescription(lines, startIndex, initialDescription), with
\* 1-based indices (startIndex and endIndex are the source's plus one)
extractMultiLineDescription(lines, startIndex, initialDescription) ==
  ContinuationFrom(lines, startIndex + 1, initialDescription)

cleanDescription(description) ==
  IF description = <<>> THEN <<>>
  ELSE IF description[1] = ":" THEN trim(Tail(description))
  ELSE description

\* str.replace(/-([a-z])/g, (_, letter) => letter.toUpperCase())
RECURSIVE toCamelCase(_)
toCamelCase(str) ==
  IF str = <<>> THEN <<>>
  ELSE IF str[1] = "-" /\ Len(str) >= 2 /\ IsLower(str[2])
  THEN <<toUpperChar(str[2])>> \o toCamelCase(Drop(str, 3))
  ELSE <<str[1]>> \o toCamelCase(Tail(str))

\* str.replace(/[A-Z]/g, letter => `-${letter.toLowerCase()}`)
RECURSIVE toKebabCase(_)
toKebabCase(str) ==
  IF str = <<>> THEN <<>>
  ELSE IF IsUpper(str[1]) THEN <<"-", toLowerChar(str[1])>> \o toKebabCase(Tail(str))
  ELSE <<str[1]>> \o toKebabCase(Tail(str))

\* ------------------------------------------------------------------------
\* validation.ts, helpParser.ts: the help-text parser
\* ------------------------------------------------------------------------
invalidWords ==
  { <<"o","f">>, <<"t","h","e">>, <<"a","n","d">>, <<"o","r">>, <<"t","o">>,
    <<"f","r","o","m">>, <<"f","o","r">>, <<"w","i","t","h">>, <<"b","y">>, <<"i","n">>,
    <<"o","n">>, <<"a","t">>, <<"u","s","e">>, <<"s","e","e">>, <<"a","l","l">>,
    <<"m","o","r","e">>, <<"i","n","f","o","r","m","a","t","i","o","n">>,
    <<"u","s","i","n","g">>, <<"v","a","l","u","e","s">>, <<"s","e","r","v","e","r">>,
    <<"s","e","r","v","i","c","e">>, <<"m","a","c","h","i","n","e">>,
    <<"d","e","p","r","e","c","a","t","e","d">>, <<"c","a","c","h","e","s">>,
    <<"c","a","t","a","l","o","g">>, <<"f","o","r","m","a","t">>, <<"c","p">>, <<"c","o">>,
    <<"w","a","s">>, <<"c","o","n","t","e","n","t","s">>,
    <<"c","e","r","t","i","f","i","c","a","t","e">>, <<"m","i","s","l","a","v">>,
    <<"c","o","m","m","a","n","d">>, <<"s","u","b","c","o","m","m","a","n","d">>,
    <<"o","p","t","i","o","n">>, <<"f","l","a","g">>, <<"a","r","g","u","m","e","n","t">>,
    <<"d","e","s","c","r","i","p","t","i","o","n">>, <<"e","x","a","m","p","l","e">>,
    <<"e","x","a","m","p","l","e","s">>, <<"u","s","a","g","e">>, <<"h","e","l","p">>,
    <<"v","e","r","s","i","o","n">> }

MinNameLength == 2

MaxNameLength == 50

validateCommandName(name) ==
  /\ name # <<>>
  /\ ~(Len(name) < MinNameLength \/ Len(name) > MaxNameLength)
  /\ ~(\E i \in DOMAIN name : name[i] \in {" ", "\t"})
  /\ IsLower(name[1]) /\ \A i \in DOMAIN name : IsIdentChar(name[i])
  /\ toLowerCase(name) \notin invalidWords

\* A CliCommand with no children: the stub the parser makes for an entry and
\* the default node of discover
EmptyCommand(name, description) ==
  [name |-> name, description |-> description,
   subcommands |-> <<>>, options |-> <<>>, arguments |-> <<>>]

\* extractDescription(helpText, commandName): the for loop from line i on
RECURSIVE DescriptionFrom(_, _, _)
DescriptionFrom(lines, i, commandName) ==
  IF i > Len(lines) THEN <<>>
  ELSE LET trimmed == trim(lines[i])
       IN  IF trimmed = <<>> \/ trimmed = <<"G","r","o","u","p">>
              \/ trimmed = <<"C","o","m","m","a","n","d">>
           THEN DescriptionFrom(lines, i + 1, commandName)
           ELSE IF commandName # <<>> /\ startsWith(trimmed, commandName)
           THEN DescriptionFrom(lines, i + 1, commandName)
           ELSE IF startsWith(trimmed, <<"U","s","a","g","e",":">>)
              \/ startsWith(trimmed, <<"O","p","t","i","o","n","s",":">>)
              \/ startsWith(trimmed, <<"C","o","m","m","a","n","d","s",":">>)
           THEN DescriptionFrom(lines, i + 1, commandName)
           ELSE trimmed

extractDescription(helpText, commandName) ==
  IF helpText = <<>> THEN <<>> ELSE DescriptionFrom(helpText, 1, commandName)

\* /Usage:.*\n.*Flags:/s : `Usage:` on some line and `Flags:` on a later one
TerminalUsageFlags(helpText) ==
  \E i \in DOMAIN helpText : \E j \in DOMAIN helpText :
     /\ i < j
     /\ includes(helpText[i], <<"U","s","a","g","e",":">>)
     /\ includes(helpText[j], <<"F","l","a","g","s",":">>)

\* /^Command\s*\n\s+\w+(\s+\w+)+\s+/m : a line starting with `Command`, then
\* white space holding a line break that is not its last character, then at
\* least two words separated by white space, the last followed by white space
TerminalCommandSummary(helpText) ==
  \E i \in DOMAIN helpText :
     LET f  == Flat(Drop(helpText, i))
         r  == Drop(f, 8)
         a  == LeadWs(r)
         r1 == Drop(r, a + 1)
         w1 == LeadWord(r1)
         r2 == Drop(r1, w1 + 1)
         b  == LeadWs(r2)
         r3 == Drop(r2, b + 1)
         w2 == LeadWord(r3)
         r4 == Drop(r3, w2 + 1)
     IN  /\ startsWith(f, <<"C","o","m","m","a","n","d">>)
         /\ \E j \in 1..(a - 1) : r[j] = "\n"
         /\ w1 >= 1 /\ b >= 1 /\ w2 >= 1
         /\ r4 # <<>> /\ IsWs(r4[1])

\* isTerminalCommand(helpText).  PATTERNS.COMMAND_SECTION has no m flag, so
\* test() on the whole text anchors ^ at the start of the text.
isTerminalCommand(helpText) ==
  LET hasCommandSections == MatchCommandSection(Flat(helpText)).ok
  IN  IF hasCommandSections THEN FALSE
      ELSE TerminalUsageFlags(helpText) \/ TerminalCommandSummary(helpText)

\* the for loop over one section's content from index i (1-based) on
RECURSIVE ScanSection(_, _, _)
ScanSection(content, i, subcommands) ==
  IF i > Len(content) THEN subcommands
  ELSE LET match == MatchCommandEntry(content[i])
       IN  IF ~match.ok THEN ScanSection(content, i + 1, subcommands)
           ELSE IF ~validateCommandName(match.name)
           THEN ScanSection(content, i + 1, subcommands)
           ELSE LET description == cleanDescription(trim(match.rest))
                    multi       == extractMultiLineDescription(content, i, description)
                IN  ScanSection(content, multi.endIndex + 1,
                                Append(subcommands,
                                       EmptyCommand(match.name, multi.description)))

IsCommandSection(s) ==
  LET name == toLowerCase(s.name)
  IN  \/ includes(name, <<"c","o","m","m","a","n","d">>)
      \/ includes(name, <<"s","u","b","g","r","o","u","p">>)
      \/ name = <<"s","u","b","g","r","o","u","p","s">>

RECURSIVE ScanSections(_, _, _)
ScanSections(sections, k, subcommands) ==
  IF k > Len(sections) THEN subcommands
  ELSE ScanSections(sections, k + 1,
         IF IsCommandSection(sections[k])
         THEN ScanSection(sections[k].content, 1, subcommands)
         ELSE subcommands)

parseSubcommandsFromText(helpText) ==
  IF helpText = <<>> THEN <<>>
  ELSE IF isTerminalCommand(helpText) THEN <<>>
  ELSE ScanSections(parseHelpSections(helpText), 1, <<>>)

IsArgumentSection(s) ==
  includes(s.name, <<"a","r","g","u","m","e","n","t">>) \/ s.name = <<"a","r","g","s">>

RECURSIVE ScanArguments(_, _, _)
ScanArguments(content, i, args) ==
  IF i > Len(content) THEN args
  ELSE LET match == MatchArgumentEntry(content[i])
       IN  ScanArguments(content, i + 1,
             IF match.ok
             THEN Append(args, [name |-> match.name, description |-> trim(match.rest),
                                required |-> includes(content[i], <<"<">>)])
             ELSE args)

RECURSIVE ScanArgumentSections(_, _, _)
ScanArgumentSections(sections, k, args) ==
  IF k > Len(sections) THEN args
  ELSE ScanArgumentSections(sections, k + 1,
         IF IsArgumentSection(sections[k])
         THEN ScanArguments(sections[k].content, 1, args)
         ELSE args)

parseArgumentsFromText(helpText) ==
  IF helpText = <<>> THEN <<>>
  ELSE ScanArgumentSections(parseHelpSections(helpText), 1, <<>>)

\* The parse-help package (an external library; the repository holds only its
\* type declaration).  The model reads a flag from every line whose trimmed
\* text is `--name description` or `-x, --name description`; a flag carries
\* no type, and the library's own description is empty.
MatchFlagLine(line) ==
  LET t     == trim(line)
      short == Len(t) >= 3 /\ t[1] = "-" /\ t[2] # "-" /\ t[3] = ","
      u     == IF short THEN trimStart(Drop(t, 4)) ELSE t
      n     == LeadIdent(Drop(u, 3))
  IN  IF startsWith(u, <<"-", "-">>) /\ n >= 1
      THEN [ok |-> TRUE, flagName |-> SubSeq(u, 3, n + 2),
            alias |-> IF short THEN <<t[2]>> ELSE Undefined,
            description |-> trim(Drop(u, n + 3)), type |-> Undefined]
      ELSE [ok |-> FALSE, flagName |-> <<>>, alias |-> Undefined,
            description |-> <<>>, type |-> Undefined]

\* flags[name] = f on an object: a new key is added last, an old key keeps
\* its place
RECURSIVE SetFlag(_, _)
SetFlag(flags, f) ==
  IF flags = <<>> THEN <<f>>
  ELSE IF flags[1].flagName = f.flagName THEN <<f>> \o Tail(flags)
  ELSE <<flags[1]>> \o SetFlag(Tail(flags), f)

RECURSIVE FlagsFrom(_, _, _)
FlagsFrom(lines, i, flags) ==
  IF i > Len(lines) THEN flags
  ELSE LET m == MatchFlagLine(lines[i])
           f == [flagName |-> m.flagName, alias |-> m.alias,
                 description |-> m.description, type |-> m.type]
       IN  FlagsFrom(lines, i + 1, IF m.ok THEN SetFlag(flags, f) ELSE flags)

parseHelp(helpText) == [description |-> <<>>, flags |-> FlagsFrom(helpText, 1, <<>>)]

\* the texts on which parseHelp raises: the library is not part of the
\* repository, so the model designates them by a NUL-like marker character
parseHelpThrows(helpText) == \E i \in DOMAIN helpText : includes(helpText[i], <<"~">>)

\* the CliOption made from one entry of parsed.flags
OptionOfFlag(f) ==
  [name          |-> <<"-", "-">> \o f.flagName,
   shortName     |-> IF f.alias # Undefined /\ f.alias # <<>>
                     THEN <<"-">> \o f.alias ELSE Undefined,
   description   |-> f.description,
   valueRequired |-> f.type # <<"b","o","o","l","e","a","n">> /\ f.type # Undefined,
   valueName     |-> IF f.type = <<"s","t","r","i","n","g">>
                     THEN <<"v","a","l","u","e">> ELSE Undefined]

\* the loop over Object.entries(parsed.flags)
RECURSIVE OptionsOfFlags(_)
OptionsOfFlags(flags) ==
  IF flags = <<>> THEN <<>>
  ELSE <<OptionOfFlag(flags[1])>> \o OptionsOfFlags(Tail(flags))

\* an exception that leaves parseHelpText
Thrown == [threw |-> TRUE]

\* a catch block that throws the error on (a faulty variant of CatchBlock)
Rethrow(helpText, commandName) == Thrown

\* the catch block of parseHelpText
CatchBlock(helpText, commandName) ==
  [name        |-> commandName,
   description |-> extractDescription(helpText, commandName),
   subcommands |-> parseSubcommandsFromText(helpText),
   options     |-> <<>>,
   arguments   |-> parseArgumentsFromText(helpText)]

\* parseHelpText(helpText, commandName): a CliCommand whose subcommands are
\* stubs
parseHelpText(helpText, commandName) ==
  IF helpText = <<>> \/ commandName = <<>>
  THEN EmptyCommand(IF commandName # <<>> THEN commandName
                    ELSE <<"u","n","k","n","o","w","n">>, <<>>)
  ELSE IF ~parseHelpThrows(helpText)
  THEN LET parsed == parseHelp(helpText)
       IN  [name        |-> commandName,
            description |-> IF parsed.description # <<>> THEN parsed.description
                            ELSE extractDescription(helpText, commandName),
            subcommands |-> parseSubcommandsFromText(helpText),
            options     |-> OptionsOfFlags(parsed.flags),
            arguments   |-> parseArgumentsFromText(helpText)]
  ELSE CatchBlock(helpText, commandName)

\* ------------------------------------------------------------------------
\* processUtils.ts: the results runProcess resolves with
\* ------------------------------------------------------------------------
DefaultTimeoutMs == <<"1","0","0","0","0">>

\* the timeout callback's result
TimeoutResult(command, args) ==
  [stdout   |-> <<>>,
   stderr   |-> << <<"T","i","m","e","o","u","t"," ","a","f","t","e","r"," ">>
                   \o DefaultTimeoutMs \o <<"m","s"," ","f","o","r"," ">>
                   \o command \o <<" ">> \o join(args, <<" ">>) >>,
   exitCode |-> -1]

\* the close handler's result: exitCode is `code || 0`
CloseResult(stdout, stderr, code) ==
  [stdout |-> stdout, stderr |-> stderr, exitCode |-> code]

\* the error handler's result, with err.message
ErrorResult(stdout, message) ==
  [stdout |-> stdout, stderr |-> <<message>>, exitCode |-> -1]

\* ------------------------------------------------------------------------
\* The wrapped program: what `<command> <args> --help` can do.  A shape names
\* one program; RunOutcomes gives the results runProcess can resolve with.
\* ------------------------------------------------------------------------
Az  == <<"a","z">>

Vm  == <<"v","m">>

Net == <<"n","e","t">>

Db  == <<"d","b">>

Ls  == <<"l","s">>

Rm  == <<"r","m">>

Me  == <<"m","e">>

Xx  == <<"x","x">>

HelpFlag == <<"-","-","h","e","l","p">>

\* one entry line of a command section
EntryLine(name) == <<" "," ">> \o name \o <<" "," ","R","u","n"," ">> \o name

RECURSIVE EntryLines(_)
EntryLines(names) ==
  IF names = <<>> THEN <<>> ELSE <<EntryLine(names[1])>> \o EntryLines(Tail(names))

\* a help text: a description line, an option line and a command section
HelpDoc(about, names) ==
  << <<"A","b","o","u","t"," ">> \o about,
     <<" "," ","-","h",","," ","-","-","h","e","l","p"," "," ","S","h","o","w">>,
     <<>>,
     <<"C","o","m","m","a","n","d","s",":">> >>
  \o EntryLines(names)

Shapes == {"tree", "self", "wide", "dup", "echo", "flaky"}

\* the subcommands the help of `command args` lists
SubNames(sh, args) ==
  CASE sh = "tree"  -> IF args = <<>> THEN <<Vm, Net>>
                       ELSE IF args = <<Vm>> THEN <<Ls, Rm>>
                       ELSE IF args = <<Net>> THEN <<Ls>>
                       ELSE <<>>
    [] sh = "self"  -> <<Me>>
    [] sh = "wide"  -> IF args = <<>> THEN <<Vm, Net, Db>>
                       ELSE IF args = <<Db>> THEN <<Ls>>
                       ELSE <<>>
    [] sh = "dup"   -> IF args = <<>> THEN <<Vm, Vm, Vm>>
                       ELSE IF args = <<Vm>> THEN <<Ls>>
                       ELSE IF args = <<Vm, Ls>> THEN <<Xx>>
                       ELSE <<>>
    [] sh = "echo"  -> IF args = <<>> THEN <<Vm, Vm>>
                       ELSE IF args = <<Vm>> THEN <<Ls, Rm, Db>>
                       ELSE IF args = <<Vm, Ls>> THEN <<Xx>>
                       ELSE <<>>
    [] sh = "flaky" -> IF args = <<>> THEN <<Vm, Net, Db>>
                       ELSE IF args = <<Db>> THEN <<Ls>>
                       ELSE <<>>

\* entry lines whose description is a lone colon, which the parser cleans to ''
RECURSIVE BareEntryLines(_)
BareEntryLines(names) ==
  IF names = <<>> THEN <<>>
  ELSE << <<" "," ">> \o names[1] \o <<" "," ",":">> >> \o BareEntryLines(Tail(names))

HelpOf(sh, command, args) ==
  LET about == IF args = <<>> THEN command ELSE args[Len(args)]
  IN  IF sh = "echo"
      THEN HelpDoc(about, <<>>) \o BareEntryLines(SubNames(sh, args))
      ELSE HelpDoc(about, SubNames(sh, args))

\* the results runProcess(command, [...args, '--help']) can resolve with
RunOutcomes(sh, command, args) ==
  LET ok == CloseResult(HelpOf(sh, command, args), <<>>, 0)
  IN  IF sh # "flaky" THEN {ok}
      ELSE IF args = <<>>
      THEN {ok, TimeoutResult(command, <<HelpFlag>>),
            ErrorResult(<<>>, <<"s","p","a","w","n"," ">> \o command
                                \o <<" ","E","N","O","E","N","T">>)}
      \* no output at all
      ELSE IF args = <<Vm>> THEN {ok, CloseResult(<<>>, <<>>, 0)}
      ELSE IF args = <<Net>> THEN {ok, TimeoutResult(command, <<Net, HelpFlag>>)}
      \* the usage text on stderr with a non-zero exit code
      ELSE IF args = <<Db>> THEN {CloseResult(<<>>, HelpOf(sh, command, args), 2)}
      ELSE {ok}

\* ------------------------------------------------------------------------
\* helpParser.ts: discoverAllCommands
\*
\* Objects live in `heap`: heap[id] is a CliCommand whose subcommands field is
\* the sequence of the ids of its subcommand objects, so that two arrays can
\* share their elements as they do in the program.  An array is never changed
\* after the parser made it; only the fields of its elements are assigned.
\*
\* calls[f] is one invocation of the inner function discover that has started
\* a help acquisition: its arguments, where it is suspended (st), the node it
\* parsed, the batch it waits for and the number of unsettled expansions of
\* that batch; and, for the record, the result its runProcess resolved with
\* (res), whether its catch block ran (threw), the object it returned (ret)
\* and the value of totalDiscovered when it parsed (at).  An invocation answered from the memo table or cut by the depth
\* check never suspends and has no entry.
\*
\* One step of the model is one turn of the event loop: the settling of one
\* help acquisition followed by every continuation that it makes runnable
\* (promise continuations are microtasks and run before the next event).
\* ------------------------------------------------------------------------
VARIABLES
  shape,            \* the wrapped program (input)
  baseCommand,      \* discoverAllCommands' first argument
  maxDepth,         \* discoverAllCommands' second argument
  heap,             \* the CliCommand objects
  discovered,       \* the memo table: pairs <<key, id of the parsed node>>
  calls,            \* the invocations of discover
  totalDiscovered,
  status,           \* of the promise of discoverAllCommands
  result,           \* the id it resolved with (0: none)
  settled,          \* the number of runProcess promises that have settled
  tools,            \* the McpTool list of startMcpServer (<<>>: not converted)
  invoked,          \* the last runProcess call of executeCommand
  helpText,         \* parseHelpText's first argument
  commandName,      \* parseHelpText's second argument
  parseResult,      \* what the call of parseHelpText gave
  commandResult,    \* formatCommandResponse's argument
  response,         \* the text of the response it built
  argv,             \* process.argv.slice(2)
  cacheContent,     \* what the cache file holds
  startup,          \* how far main has come
  parsedArgs,       \* what main's call of parseArgs returned
  proc,             \* the call of runProcess: its child, timer and promise
  scan,             \* the loop of parseSubcommandsFromText over one section
  registered        \* the calls of server.registerTool in startMcpServer

parserVars == <<helpText, commandName, parseResult>>

formatVars == <<commandResult, response>>

startVars == <<argv, cacheContent, startup, parsedArgs>>

vars == <<shape, baseCommand, maxDepth, heap, discovered, calls,
          totalDiscovered, status, result, settled, tools, invoked, parserVars,
          formatVars, startVars, proc, scan, registered>>

\* scaled: the source's concurrencyLimit is 20; a batch of 20 concurrent
\* acquisitions alone has 2^20 completion states.  Every statement below is
\* made about concurrencyLimit, not about the number 2.
concurrencyLimit == 2

\* the largest maxDepth the model runs discoverAllCommands with
MaxDepthBound == 3

\* no run of the model starts this many acquisitions; the guard of Settle
\* keeps the state space finite whatever discover does
MaxCalls == 24

\* `${command} ${args.join(' ')}`.trim()
Key(command, args) == trim(command \o <<" ">> \o join(args, <<" ">>))

\* args[args.length - 1] || command
LastOr(args, command) ==
  IF args # <<>> /\ args[Len(args)] # <<>> THEN args[Len(args)] ELSE command

\* the object literal returned by the depth check and by the catch block
DefaultNode(command, args) == EmptyCommand(LastOr(args, command), <<>>)

\* getCommandHelp after runProcess has resolved with res: the text it
\* returns, or ok = FALSE when it throws
getCommandHelp(res) ==
  IF res.stdout # <<>> \/ res.stderr # <<>>
  THEN [ok |-> TRUE, text |-> IF res.stdout # <<>> THEN res.stdout ELSE res.stderr]
  ELSE [ok |-> FALSE, text |-> <<>>]

\* the parsed command and its stubs become objects: the node at Len(h) + 1,
\* its stubs after it
RECURSIVE Ids(_, _)
Ids(from, to) == IF from > to THEN <<>> ELSE <<from>> \o Ids(from + 1, to)

AllocParsed(h, pc) ==
  LET n == Len(h)
      k == Len(pc.subcommands)
  IN  h \o << [pc EXCEPT !.subcommands = Ids(n + 2, n + 1 + k)] >> \o pc.subcommands

\* the batching loop `for (let i = 0; ...; i += concurrencyLimit)`, with i the
\* 1-based index of the first stub of the next slice
RECURSIVE BatchesFrom(_, _)
BatchesFrom(subcommands, i) ==
  IF i > Len(subcommands) THEN <<>>
  ELSE <<SubSeq(subcommands, i, Min(i + concurrencyLimit - 1, Len(subcommands)))>>
       \o BatchesFrom(subcommands, i + concurrencyLimit)

Batches(subcommands) == BatchesFrom(subcommands, 1)

\* a merge that first moves the stub to the end of its parent's list, so that
\* the list ends in completion order (a faulty variant of mergeSubcommand)
RECURSIVE Without(_, _)
Without(ids, id) ==
  IF ids = <<>> THEN <<>>
  ELSE IF ids[1] = id THEN Without(Tail(ids), id)
  ELSE <<ids[1]>> \o Without(Tail(ids), id)

mergeInCompletionOrder(h, parsedCommand, subcommand, subParsed) ==
  [h EXCEPT ![parsedCommand].subcommands = Append(Without(@, subcommand), subcommand),
            ![subcommand] =
     [@ EXCEPT !.subcommands = h[subParsed].subcommands,
               !.options     = h[subParsed].options,
               !.arguments   = h[subParsed].arguments,
               !.description = IF @ = <<>> /\ h[subParsed].description # <<>>
                               THEN h[subParsed].description ELSE @]]

\* the objects with the ids `ids`
RECURSIVE ObjectsOf(_, _)
ObjectsOf(h, ids) ==
  IF ids = <<>> THEN <<>> ELSE <<h[ids[1]]>> \o ObjectsOf(h, Tail(ids))

\* a merge that gives the stub copies `{...s}` of the elements of
\* subParsed.subcommands, made when it runs, in place of the array itself (a
\* faulty variant of mergeSubcommand)
mergeByCopy(h, parsedCommand, subcommand, subParsed) ==
  LET n == Len(h)
      k == Len(h[subParsed].subcommands)
      copies == ObjectsOf(h, h[subParsed].subcommands)
  IN  [h \o copies EXCEPT ![subcommand] =
         [@ EXCEPT !.subcommands = Ids(n + 1, n + k),
                   !.options     = h[subParsed].options,
                   !.arguments   = h[subParsed].arguments,
                   !.description = IF @ = <<>> /\ h[subParsed].description # <<>>
                                   THEN h[subParsed].description ELSE @]]

\* a merge that assigns the expansion's description whatever the stub's own
\* is (a faulty variant of mergeSubcommand)
mergeOverDescription(h, parsedCommand, subcommand, subParsed) ==
  [h EXCEPT ![subcommand] =
     [@ EXCEPT !.subcommands = h[subParsed].subcommands,
               !.options     = h[subParsed].options,
               !.arguments   = h[subParsed].arguments,
               !.description = h[subParsed].description]]

\* the assignments after `await discover(...)` in the batch callback: the stub
\* `subcommand` of parsedCommand takes the fields of subParsed
mergeSubcommand(h, parsedCommand, subcommand, subParsed) ==
  [h EXCEPT ![subcommand] =
     [@ EXCEPT !.subcommands = h[subParsed].subcommands,
               !.options     = h[subParsed].options,
               !.arguments   = h[subParsed].arguments,
               !.description = IF @ = <<>> /\ h[subParsed].description # <<>>
                               THEN h[subParsed].description ELSE @]]

NewCall(args, depth, parent, stub) ==
  [args |-> args, depth |-> depth, parent |-> parent, stub |-> stub,
   st |-> "help", node |-> 0, batch |-> 0, pending |-> 0,
   res |-> CloseResult(<<>>, <<>>, 0), threw |-> FALSE, ret |-> 0, at |-> 0]

\* the memo table is a set of <<key, id>> with one pair for a key
Has(d, key) == \E e \in d : e[1] = key

Get(d, key) == (CHOOSE e \in d : e[1] = key)[2]

Set(d, key, id) == {e \in d : e[1] # key} \cup {<<key, id>>}

\* a recursion that passes its own depth on to the stubs (a faulty variant of
\* ChildDepth)
SameDepth(depth) == depth

\* `depth + 1`: the depth discover is called with for a stub
ChildDepth(depth) == depth + 1

\* the memo and depth check at the head of discover
AnsweredAtOnce(d, key, depth) == Has(d, key) \/ depth > maxDepth

\* `depth < maxDepth`: the node's stubs are expanded
ExpandsChildren(depth) == depth < maxDepth

\* the machine state the continuations work on
Machine ==
  [heap |-> heap, discovered |-> discovered, calls |-> calls,
   total |-> totalDiscovered, status |-> status, result |-> result]

RECURSIVE DispatchBatch(_, _, _, _, _)
RECURSIVE RunBatches(_, _, _)
RECURSIVE Return(_, _, _)
RECURSIVE MergeAll(_, _, _, _)

\* batch.map(async subcommand => ...): the synchronous part of every callback,
\* for the stubs batch[j..]: discover is called and either returns at once
\* (imm collects <<stub, returned id>>) or starts an acquisition (a new call)
DispatchBatch(ms, f, batch, j, imm) ==
  IF j > Len(batch) THEN [ms |-> ms, imm |-> imm]
  ELSE LET subcommand == batch[j]
           subArgs    == Append(ms.calls[f].args, ms.heap[subcommand].name)
           depth      == ChildDepth(ms.calls[f].depth)
           key        == Key(baseCommand, subArgs)
       IN  IF AnsweredAtOnce(ms.discovered, key, depth)
           THEN IF Has(ms.discovered, key)
                THEN DispatchBatch(ms, f, batch, j + 1,
                                   Append(imm, <<subcommand, Get(ms.discovered, key)>>))
                ELSE LET h2 == Append(ms.heap, DefaultNode(baseCommand, subArgs))
                     IN  DispatchBatch([ms EXCEPT !.heap = h2], f, batch, j + 1,
                                       Append(imm, <<subcommand, Len(h2)>>))
           ELSE DispatchBatch(
                  [ms EXCEPT !.calls = Append(@, NewCall(subArgs, depth, f, subcommand))],
                  f, batch, j + 1, imm)

\* the continuations of the callbacks whose discover returned at once
MergeAll(h, parsedCommand, imm, j) ==
  IF j > Len(imm) THEN h
  ELSE MergeAll(mergeSubcommand(h, parsedCommand, imm[j][1], imm[j][2]),
                parsedCommand, imm, j + 1)

\* `for (const batch of batches)` of call f from batch b on, up to the next
\* suspension; after the last batch the call returns parsedCommand
RunBatches(ms, f, b) ==
  LET parsedCommand == ms.calls[f].node
      batches       == Batches(ms.heap[parsedCommand].subcommands)
  IN  IF b > Len(batches) THEN Return(ms, f, parsedCommand)
      ELSE LET d   == DispatchBatch(ms, f, batches[b], 1, <<>>)
               n   == Len(d.ms.calls) - Len(ms.calls)
               ms2 == [d.ms EXCEPT
                         !.heap = MergeAll(@, parsedCommand, d.imm, 1),
                         !.calls[f].st = "batch",
                         !.calls[f].batch = b,
                         !.calls[f].pending = n]
           IN  IF n = 0 THEN RunBatches(ms2, f, b + 1) ELSE ms2

\* a wait that ends with the first expansion of the batch to return (a faulty
\* variant of BatchSettled)
AnySettled(pending) == TRUE

\* `await Promise.all(subcommandPromises)` goes on when none of the batch's
\* callbacks is pending
BatchSettled(pending) == pending = 0

\* call f returns the object r: the promise of discoverAllCommands resolves
\* (root call), or the parent's callback merges r into its stub and, when it
\* was the last of the batch, Promise.all resolves and the parent goes on
Return(ms, f, r) ==
  LET p   == ms.calls[f].parent
      ms1 == [ms EXCEPT !.calls[f].st = "done", !.calls[f].ret = r]
  IN  IF p = 0 THEN [ms1 EXCEPT !.status = "resolved", !.result = r]
      ELSE LET ms2 == [ms1 EXCEPT
                         !.heap = mergeSubcommand(@, ms1.calls[p].node,
                                                  ms1.calls[f].stub, r),
                         !.calls[p].pending = @ - 1]
           IN  IF BatchSettled(ms2.calls[p].pending)
               THEN RunBatches(ms2, p, ms2.calls[p].batch + 1)
               ELSE ms2

\* a discover without its catch block: the failure of one acquisition rejects
\* every caller up to discoverAllCommands (a faulty variant of OnError)
OnErrorRethrow(ms, f) ==
  [ms EXCEPT !.calls[f].threw = TRUE, !.calls[f].st = "done", !.status = "rejected"]

\* the catch block of discover: the call returns a default node
OnError(ms, f) ==
  LET h2 == Append(ms.heap, DefaultNode(baseCommand, ms.calls[f].args))
  IN  Return([ms EXCEPT !.heap = h2, !.calls[f].threw = TRUE], f, Len(h2))

\* the try block of discover after `await getCommandHelp` for call f, whose
\* runProcess resolved with res
AfterHelp(ms, f, res) ==
  LET c    == ms.calls[f]
      help == getCommandHelp(res)
      ms0  == [ms EXCEPT !.calls[f].res = res]
  IN  IF ~help.ok THEN OnError(ms0, f)
      ELSE LET commandNameForParsing ==
                 IF c.depth = 0 THEN baseCommand ELSE LastOr(c.args, baseCommand)
               parsedCommand == parseHelpText(help.text, commandNameForParsing)
               h2  == AllocParsed(ms0.heap, parsedCommand)
               id  == Len(ms0.heap) + 1
               ms1 == [ms0 EXCEPT
                         !.heap = h2,
                         !.discovered = Set(@, Key(baseCommand, c.args), id),
                         !.total = @ + 1,
                         !.calls[f].node = id,
                         !.calls[f].at = ms0.total + 1]
           IN  IF ExpandsChildren(c.depth) THEN RunBatches(ms1, f, 1)
               ELSE Return(ms1, f, id)

\* executeCommand has not been called
\* no call of parseHelpText has been made
NotParsed == [called |-> FALSE]

\* no CommandResult has been formatted
NoResult == [stdout |-> <<>>, stderr |-> <<>>, exitCode |-> 0]

\* existsSync(cacheFile) is false
MissingFile == [kind |-> "missing"]

\* main has not run
NotStarted == [phase |-> "init"]

\* main has not called parseArgs
NoArgs == [parsed |-> FALSE]

\* no section is being scanned
NotScanning == [phase |-> "idle"]

\* startMcpServer has not come to its registration loop
NotRegistering == [phase |-> "idle"]

\* runProcess has not been called
NotRun == [phase |-> "idle"]

NoCall == [ran |-> FALSE, tool |-> <<>>, given |-> <<>>, command |-> <<>>, args |-> <<>>]

Install(ms) ==
  /\ heap' = ms.heap
  /\ discovered' = ms.discovered
  /\ calls' = ms.calls
  /\ totalDiscovered' = ms.total
  /\ status' = ms.status
  /\ result' = ms.result
  /\ UNCHANGED <<shape, baseCommand, maxDepth, tools, invoked, parserVars,
                 formatVars, startVars, proc, scan, registered>>

Init ==
  /\ shape \in Shapes
  /\ baseCommand = Az
  /\ maxDepth \in 0..MaxDepthBound
  /\ heap = <<>>
  /\ discovered = {}
  /\ calls = <<>>
  /\ totalDiscovered = 0
  /\ status = "idle"
  /\ result = 0
  /\ settled = 0
  /\ tools = <<>>
  /\ invoked = NoCall
  /\ helpText = <<>>
  /\ commandName = <<>>
  /\ parseResult = NotParsed
  /\ commandResult = NoResult
  /\ response = <<>>
  /\ argv = <<>>
  /\ cacheContent = MissingFile
  /\ startup = NotStarted
  /\ parsedArgs = NoArgs
  /\ proc = NotRun
  /\ scan = NotScanning
  /\ registered = NotRegistering

\* discoverAllCommands(baseCommand, maxDepth) is called: discover(baseCommand,
\* [], 0) runs up to its first await
Start ==
  /\ status = "idle"
  /\ IF AnsweredAtOnce(discovered, Key(baseCommand, <<>>), 0)
     THEN Install([Machine EXCEPT !.heap = <<DefaultNode(baseCommand, <<>>)>>,
                                  !.status = "resolved", !.result = 1])
     ELSE Install([Machine EXCEPT !.calls = <<NewCall(<<>>, 0, 0, 0)>>,
                                  !.status = "running"])
  /\ settled' = settled

\* the help acquisition of call f settles with one of the results the program
\* can give, and discover goes on
Settle(f) ==
  /\ status = "running"
  /\ Len(calls) < MaxCalls
  /\ calls[f].st = "help"
  /\ \E res \in RunOutcomes(shape, baseCommand, calls[f].args) :
        Install(AfterHelp(Machine, f, res))
  /\ settled' = settled + 1

Next == Start \/ \E f \in DOMAIN calls : Settle(f)

Spec == Init /\ [][Next]_vars

\* ------------------------------------------------------------------------
\* toolConverter.ts: convertCommandToTools
\* ------------------------------------------------------------------------
Hyphen == <<"-">>

\* `parentPath.length < 10`
MaxPathDepth == 10

\* a variant that keeps the base command's name in the path (a faulty variant
\* of CurrentPath)
UnfilteredPath(parentPath, name, base) == Append(parentPath, name)

\* [...parentPath, command.name].filter(p => p !== baseCommand)
CurrentPath(parentPath, name, base) == filterNe(Append(parentPath, name), base)

\* command.description || `Execute ${toolName} command`
ToolDescription(description, toolName) ==
  IF description # <<>> THEN description
  ELSE <<"E","x","e","c","u","t","e"," ">> \o toolName \o <<" ","c","o","m","m","a","n","d">>

\* properties[key] = def: an object keeps a key at the place of its first
\* assignment
RECURSIVE SetProp(_, _, _)
SetProp(properties, key, def) ==
  IF properties = <<>> THEN << <<key, def>> >>
  ELSE IF properties[1][1] = key THEN << <<key, def>> >> \o Tail(properties)
  ELSE <<properties[1]>> \o SetProp(Tail(properties), key, def)

createPropertyDefinition(type, description) ==
  [type |-> type, description |-> description]

\* str.replace(/^--/, '') and str.replace(/^-/, '')
StripPrefix(str, prefix) ==
  IF startsWith(str, prefix) THEN Drop(str, Len(prefix) + 1) ELSE str

\* a variant that adds no property for the short form (a faulty variant of
\* addOptionToSchema)
addOptionWithoutAlias(properties, option) ==
  SetProp(properties, toCamelCase(StripPrefix(option.name, <<"-", "-">>)),
          createPropertyDefinition(IF option.valueRequired THEN "string" ELSE "boolean",
                                   option.description))

addOptionToSchema(properties, option) ==
  LET propName == toCamelCase(StripPrefix(option.name, <<"-", "-">>))
      type     == IF option.valueRequired THEN "string" ELSE "boolean"
      p1       == SetProp(properties, propName,
                          createPropertyDefinition(type, option.description))
  IN  IF option.shortName # Undefined /\ option.shortName # <<>>
      THEN SetProp(p1, StripPrefix(option.shortName, <<"-">>),
                   createPropertyDefinition(type, <<"A","l","i","a","s"," ","f","o","r"," ">> \o propName))
      ELSE p1

RECURSIVE OptionProps(_, _)
OptionProps(options, properties) ==
  IF options = <<>> THEN properties
  ELSE OptionProps(Tail(options), addOptionToSchema(properties, options[1]))

RECURSIVE ArgumentProps(_, _)
ArgumentProps(arguments, properties) ==
  IF arguments = <<>> THEN properties
  ELSE ArgumentProps(Tail(arguments),
         SetProp(properties, toCamelCase(arguments[1].name),
                 createPropertyDefinition("string", arguments[1].description)))

RECURSIVE RequiredOf(_)
RequiredOf(arguments) ==
  IF arguments = <<>> THEN <<>>
  ELSE (IF arguments[1].required THEN <<toCamelCase(arguments[1].name)>> ELSE <<>>)
       \o RequiredOf(Tail(arguments))

createInputSchema(command) ==
  [type       |-> "object",
   properties |-> ArgumentProps(command.arguments, OptionProps(command.options, <<>>)),
   required   |-> IF RequiredOf(command.arguments) # <<>>
                  THEN RequiredOf(command.arguments) ELSE Undefined]

\* the names seenNames holds: a name is added with every push to tools
RECURSIVE ToolNames(_)
ToolNames(ts) == IF ts = <<>> THEN <<>> ELSE <<ts[1].name>> \o ToolNames(Tail(ts))

\* the first if/else of convertCommandToTools: the tools list after it
OwnTool(h, command, base, parentPath) ==
  LET currentPath == CurrentPath(parentPath, h[command].name, base)
      toolName    == join(currentPath, Hyphen)
  IN  IF parentPath = <<>>
      THEN << [name        |-> base,
               description |-> ToolDescription(h[command].description, base),
               inputSchema |-> createInputSchema(h[command])] >>
      ELSE IF currentPath # <<>>
      THEN << [name        |-> toolName,
               description |-> ToolDescription(h[command].description, toolName),
               inputSchema |-> createInputSchema(h[command])] >>
      ELSE <<>>

\* a merge of the tools of a subcommand that keeps every one of them (a
\* faulty variant of PushUnseen)
PushAll(ts, subTools) == ts \o subTools

\* `for (const subTool of subTools) if (!seenNames.has(subTool.name)) ...`
RECURSIVE PushUnseen(_, _)
PushUnseen(ts, subTools) ==
  IF subTools = <<>> THEN ts
  ELSE IF subTools[1].name \in Range(ToolNames(ts))
  THEN PushUnseen(ts, Tail(subTools))
  ELSE PushUnseen(Append(ts, subTools[1]), Tail(subTools))

\* a guard that lets the recursion go one level further (a faulty variant of
\* WithinDepth)
WithinDepthInclusive(parentPath) == Len(parentPath) <= MaxPathDepth

\* `parentPath.length < 10`
WithinDepth(parentPath) == Len(parentPath) < MaxPathDepth

RECURSIVE convertCommandToTools(_, _, _, _)
RECURSIVE ConvertSubcommands(_, _, _, _, _)
convertCommandToTools(h, command, base, parentPath) ==
  IF h[command].subcommands # <<>> /\ WithinDepth(parentPath)
  THEN ConvertSubcommands(h, h[command].subcommands, base,
                          Append(parentPath, h[command].name),
                          OwnTool(h, command, base, parentPath))
  ELSE OwnTool(h, command, base, parentPath)

\* `for (const subcommand of command.subcommands)` over the rest `subs`
ConvertSubcommands(h, subs, base, path, ts) ==
  IF subs = <<>> THEN ts
  ELSE ConvertSubcommands(h, Tail(subs), base, path,
         PushUnseen(ts, convertCommandToTools(h, subs[1], base, path)))

\* ------------------------------------------------------------------------
\* commandExecutor.ts: executeCommand
\*
\* args is the parameter object as the sequence of its entries <<key, value>>;
\* a value is [kind, b, s, a]: a boolean b, a string s, an array a of tokens,
\* or null.  The result is the call of runProcess executeCommand makes (ran:
\* FALSE when it returns without one).
\* ------------------------------------------------------------------------
BoolValue(b) == [kind |-> "boolean", b |-> b, s |-> <<>>, a |-> <<>>]

StrValue(str) == [kind |-> "string", b |-> FALSE, s |-> str, a |-> <<>>]

ArrayValue(a) == [kind |-> "array", b |-> FALSE, s |-> <<>>, a |-> a]

NullValue == [kind |-> "null", b |-> FALSE, s |-> <<>>, a |-> <<>>]

RawKey == <<"_","r","a","w">>

\* a test of `_raw` that never finds it (a faulty variant of HasRaw)
NeverRaw(args) == FALSE

\* args._raw && Array.isArray(args._raw)
HasRaw(args) == \E i \in DOMAIN args : args[i][1] = RawKey /\ args[i][2].kind = "array"

RawOf(args) == args[CHOOSE i \in DOMAIN args : args[i][1] = RawKey][2].a

\* /^(is|has|with|no|enable|disable)/i
BooleanPrefixes ==
  { <<"i","s">>, <<"h","a","s">>, <<"w","i","t","h">>, <<"n","o">>, <<"e","n","a","b","l","e">>, <<"d","i","s","a","b","l","e">> }

isPositionalArg(key) ==
  /\ ~ \E w \in BooleanPrefixes : startsWith(toLowerCase(key), w)
  /\ ~ includes(key, <<"_">>)
  /\ Len(key) > 1
  /\ key # toUpperCase(key)

addBooleanFlag(cmdArgs, key, flagName, value) ==
  IF value
  THEN IF Len(key) = 1 THEN Append(cmdArgs, <<"-">> \o key)
       ELSE Append(cmdArgs, <<"-", "-">> \o flagName)
  ELSE cmdArgs

addValuedOption(cmdArgs, key, flagName, value) ==
  IF Len(key) = 1 THEN cmdArgs \o << <<"-">> \o key, value >>
  ELSE IF isPositionalArg(key) THEN Append(cmdArgs, value)
  ELSE cmdArgs \o << <<"-", "-">> \o flagName, value >>

\* String(value) of a value that is neither a boolean nor null
StringOf(value) == IF value.kind = "array" THEN join(value.a, <<",">>) ELSE value.s

\* `for (const [key, value] of Object.entries(args))`
RECURSIVE AddEntries(_, _)
AddEntries(cmdArgs, args) ==
  IF args = <<>> THEN cmdArgs
  ELSE LET key      == args[1][1]
           value    == args[1][2]
           flagName == toKebabCase(key)
       IN  IF value.kind = "null" THEN AddEntries(cmdArgs, Tail(args))
           ELSE IF value.kind = "boolean"
           THEN AddEntries(addBooleanFlag(cmdArgs, key, flagName, value.b), Tail(args))
           ELSE AddEntries(addValuedOption(cmdArgs, key, flagName, StringOf(value)),
                           Tail(args))

executeCommand(base, toolName, args) ==
  IF base = <<>> \/ trim(base) = <<>>
  THEN [ran |-> FALSE, tool |-> toolName, given |-> args, command |-> <<>>, args |-> <<>>]
  ELSE IF HasRaw(args)
  THEN [ran |-> TRUE, tool |-> toolName, given |-> args, command |-> base,
        args |-> RawOf(args)]
  ELSE LET commandParts == split(toolName, "-")
           cmdArgs == IF Len(commandParts) > 0 /\ commandParts[1] # base
                      THEN commandParts ELSE <<>>
       IN  [ran |-> TRUE, tool |-> toolName, given |-> args, command |-> base,
            args |-> AddEntries(cmdArgs, args)]

\* ------------------------------------------------------------------------
\* server.ts: startMcpServer converts the tree it has (discovered, or read
\* from a cache file) and registers for every tool a handler that calls
\* executeCommand(baseCommand, tool.name, params)
\* ------------------------------------------------------------------------
MyCli == <<"m","y","-","c","l","i">>

Sub == <<"s","u","b">>

Leaf == <<"l","e","a","f">>

Boards == <<"b","o","a","r","d","s">>

WorkItem == <<"w","o","r","k","-","i","t","e","m">>

Work == <<"w","o","r","k">>

Item == <<"i","t","e","m">>

Create == <<"c","r","e","a","t","e">>

Cli == <<"c","l","i">>

About(name) == <<"A","b","o","u","t"," ">> \o name

Node(name, description, subcommands) ==
  [EmptyCommand(name, description) EXCEPT !.subcommands = subcommands]

\* --output <file> with the short form -o, --force, and a required argument
OutputOption ==
  [name |-> <<"-","-","o","u","t","p","u","t">>, shortName |-> <<"-", "o">>, description |-> <<"f","i","l","e">>,
   valueRequired |-> TRUE, valueName |-> <<"f","i","l","e">>]

ForceOption ==
  [name |-> <<"-","-","f","o","r","c","e">>, shortName |-> Undefined, description |-> <<>>,
   valueRequired |-> FALSE, valueName |-> Undefined]

\* -h, --help as parseHelpText makes it from a flag without a type
HelpOption ==
  [name |-> <<"-","-","h","e","l","p">>, shortName |-> <<"-", "h">>, description |-> <<"h","e","l","p">>,
   valueRequired |-> FALSE, valueName |-> Undefined]

\* --overwrite with the short form -o, the one of --output
OverwriteOption ==
  [name |-> <<"-","-","o","v","e","r","w","r","i","t","e">>, shortName |-> <<"-", "o">>, description |-> <<>>,
   valueRequired |-> FALSE, valueName |-> Undefined]

NameArgument == [name |-> <<"r","e","s","o","u","r","c","e","-","n","a","m","e">>, description |-> <<>>, required |-> TRUE]

\* the length of the chain of the tree "deep" below its root
DeepChain == 12

\* 'execute', the name of the fallback tool
ExecuteName == <<"e","x","e","c","u","t","e">>

\* the objects i..n of a chain: every one the only subcommand of the one before
RECURSIVE ChainFrom(_, _)
ChainFrom(i, n) ==
  IF i > n THEN <<>>
  ELSE <<Node(Me, <<>>, IF i < n THEN <<i + 1>> ELSE <<>>)>> \o ChainFrom(i + 1, n)

TreeShapes ==
  {"plain", "boards", "collide", "twins", "basename", "deep", "brim", "alien",
   "prefixed", "azure", "clash", "schema"}

\* the objects of a tree, its root first
TreeHeap(sh, base) ==
  CASE sh = "plain" ->
         << Node(base, About(base), <<2>>), Node(Sub, <<>>, <<3>>),
            Node(Leaf, About(Leaf), <<>>) >>
    [] sh = "boards" ->
         << Node(base, About(base), <<2>>), Node(Boards, About(Boards), <<3>>),
            Node(WorkItem, About(WorkItem), <<4>>), Node(Create, <<>>, <<>>) >>
    [] sh = "collide" ->
         << Node(base, <<>>, <<2, 3>>), Node(WorkItem, About(WorkItem), <<>>),
            Node(Work, About(Work), <<4>>), Node(Item, About(Item), <<>>) >>
    [] sh = "twins" ->
         << Node(base, About(base), <<2, 3>>), Node(Vm, About(Vm), <<>>),
            Node(Vm, <<>>, <<4>>), Node(Ls, About(Ls), <<>>) >>
    [] sh = "basename" ->
         << Node(base, About(base), <<2, 4>>), Node(base, About(Sub), <<3>>),
            Node(Ls, About(Ls), <<>>), Node(Ls, <<>>, <<>>) >>
    [] sh = "deep" ->
         << Node(base, About(base), <<2>>) >> \o ChainFrom(2, DeepChain + 1)
    [] sh = "brim" ->
         << Node(base, About(base), <<2>>) >> \o ChainFrom(2, MaxPathDepth + 1)
    [] sh = "alien" ->
         << Node(Cli, About(Cli), <<2>>), Node(Sub, About(Sub), <<>>) >>
    \* a subcommand named like the fallback tool
    [] sh = "runner" ->
         << Node(base, About(base), <<2, 3>>), Node(ExecuteName, About(ExecuteName), <<>>),
            Node(Vm, About(Vm), <<>>) >>
    \* a root that is not named like the base command, above a chain
    [] sh = "stray" ->
         << Node(Cli, About(Cli), <<2>>) >> \o ChainFrom(2, DeepChain + 1)
    \* a node that is its own subcommand
    [] sh = "loop" ->
         << Node(base, About(base), <<1>>) >>
    \* a subcommand that is its own subcommand, beside a leaf
    [] sh = "ring" ->
         << Node(base, About(base), <<2>>), Node(Me, <<>>, <<2, 3>>),
            Node(Ls, About(Ls), <<>>) >>
    [] sh = "azure" ->
         << Node(base, About(base), <<2>>), Node(Vm, About(Vm), <<3>>),
            Node(Create, About(Create), <<>>) >>
    [] sh = "clash" ->
         << [Node(base, About(base), <<2>>) EXCEPT !.options = <<HelpOption>>],
            [Node(Sub, <<>>, <<>>) EXCEPT !.options = <<OutputOption, OverwriteOption>>] >>
    [] sh = "prefixed" ->
         << Node(base, About(base), <<2>>),
            Node(base \o Hyphen \o Ls, About(Ls), <<3>>), Node(Rm, <<>>, <<>>) >>
    [] OTHER ->
         << [Node(base, About(base), <<2>>) EXCEPT !.options = <<HelpOption>>],
            [Node(Sub, <<>>, <<>>) EXCEPT !.options = <<ForceOption, OutputOption>>,
                                          !.arguments = <<NameArgument>>] >>

\* a base command of blanks passes main's check `!commandToUse`
Blank == <<" ">>

ToolBases == {Az, MyCli, Blank}

\* {name: "x", resourceGroup: "rg1", generateSshKeys: true}
VmCreateParams ==
  << <<<<"n","a","m","e">>, StrValue(<<"x">>)>>,
     <<<<"r","e","s","o","u","r","c","e","G","r","o","u","p">>, StrValue(<<"r","g","1">>)>>,
     <<<<"g","e","n","e","r","a","t","e","S","s","h","K","e","y","s">>, BoolValue(TRUE)>> >>

\* the parameter objects the handlers are called with
ParamSets ==
  { <<>>,
    VmCreateParams,
    << <<<<"v","e","r","b","o","s","e">>, BoolValue(TRUE)>>, <<<<"o">>, StrValue(<<"x">>)>> >>,
    << <<<<"r","e","s","o","u","r","c","e","_","g","r","o","u","p">>, StrValue(<<"x">>)>>, <<<<"d","r","y","R","u","n">>, BoolValue(FALSE)>>,
       <<<<"n","a","m","e">>, StrValue(<<"x">>)>> >>,
    << <<<<"i","s","F","o","r","c","e">>, StrValue(<<"x">>)>>, <<<<"n","a","m","e">>, NullValue>>,
       <<<<"v">>, BoolValue(TRUE)>> >>,
    << <<RawKey, ArrayValue(<<Vm, Ls>>)>>, <<<<"v","e","r","b","o","s","e">>, BoolValue(TRUE)>> >> }

ToolInit ==
  /\ shape \in TreeShapes
  /\ baseCommand \in ToolBases
  /\ heap = TreeHeap(shape, baseCommand)
  /\ result = 1
  /\ status = "resolved"
  /\ maxDepth = 1
  /\ discovered = {}
  /\ calls = <<>>
  /\ totalDiscovered = 0
  /\ settled = 0
  /\ tools = <<>>
  /\ invoked = NoCall
  /\ helpText = <<>>
  /\ commandName = <<>>
  /\ parseResult = NotParsed
  /\ commandResult = NoResult
  /\ response = <<>>
  /\ argv = <<>>
  /\ cacheContent = MissingFile
  /\ startup = NotStarted
  /\ parsedArgs = NoArgs
  /\ proc = NotRun
  /\ scan = NotScanning
  /\ registered = NotRegistering

\* `const tools = convertCommandToTools(rootCommand, baseCommand)`
Convert ==
  /\ status = "resolved"
  /\ tools = <<>>
  /\ tools' = convertCommandToTools(heap, result, baseCommand, <<>>)
  /\ UNCHANGED <<shape, baseCommand, maxDepth, heap, discovered, calls,
                 totalDiscovered, status, result, settled, invoked, parserVars,
                 formatVars, startVars, proc, scan, registered>>

\* the handler of the registered tool i is called with params
Execute(i, params) ==
  /\ tools # <<>>
  /\ invoked' = executeCommand(baseCommand, tools[i].name, params)
  /\ UNCHANGED <<shape, baseCommand, maxDepth, heap, discovered, calls,
                 totalDiscovered, status, result, settled, tools, parserVars,
                 formatVars, startVars, proc, scan, registered>>

\* what parseShellCommand gives for the command strings the tool 'execute' is
\* called with: words, and objects for operators such as `|` ("op")
Word(str) == [kind |-> "string", s |-> str]

Operator(str) == [kind |-> "op", s |-> str]

ParsedCommands ==
  { <<>>,
    <<Word(Vm), Word(Ls)>>,
    <<Word(Vm), Operator(<<"|">>), Word(Rm)>>,
    <<Word(<<"-","-","v","e","r","b","o","s","e">>), Word(<<"a"," ","b">>)>> }

\* parsed.filter((arg): arg is string => typeof arg === 'string')
RECURSIVE StringsOf(_)
StringsOf(parsed) ==
  IF parsed = <<>> THEN <<>>
  ELSE (IF parsed[1].kind = "string" THEN <<parsed[1].s>> ELSE <<>>)
       \o StringsOf(Tail(parsed))

\* the handler of the tool 'execute' is called with a command string
ExecuteRaw(parsed) ==
  /\ tools # <<>>
  /\ LET cmdArgs == StringsOf(parsed)
     IN  invoked' = executeCommand(baseCommand, <<>>, << <<RawKey, ArrayValue(cmdArgs)>> >>)
  /\ UNCHANGED <<shape, baseCommand, maxDepth, heap, discovered, calls,
                 totalDiscovered, status, result, settled, tools, parserVars,
                 formatVars, startVars, proc, scan, registered>>

ToolNext ==
  \/ Convert
  \/ \E i \in DOMAIN tools : \E params \in ParamSets : Execute(i, params)
  \/ \E parsed \in ParsedCommands : ExecuteRaw(parsed)

ToolSpec == ToolInit /\ [][ToolNext]_vars

\* ------------------------------------------------------------------------
\* server.ts: startMcpServer from convertCommandToTools to the registration
\* of the tools, on structures that need not be trees rooted at the base
\* command.  registered.names holds the first argument of every call of
\* server.registerTool, in the order the calls are made.
\* ------------------------------------------------------------------------
ServerShapes == {"plain", "twins", "brim", "stray", "loop", "ring", "runner"}

\* the loop over tools from tools[i] on: registeredTools and the names passed
\* to server.registerTool
RECURSIVE RegisterFrom(_, _, _, _)
RegisterFrom(ts, i, registeredTools, names) ==
  IF i > Len(ts) THEN names
  ELSE IF ts[i].name \in registeredTools
  THEN RegisterFrom(ts, i + 1, registeredTools, names)
  ELSE RegisterFrom(ts, i + 1, registeredTools \cup {ts[i].name}, Append(names, ts[i].name))

\* the loop and then `server.registerTool('execute', ...)`
RegisterAll(ts) == Append(RegisterFrom(ts, 1, {}, <<>>), ExecuteName)

\* startMcpServer registers the tools
Register ==
  /\ tools # <<>>
  /\ registered = NotRegistering
  /\ registered' = [phase |-> "registered", names |-> RegisterAll(tools)]
  /\ UNCHANGED <<shape, baseCommand, maxDepth, heap, discovered, calls,
                 totalDiscovered, status, result, settled, tools, invoked,
                 parserVars, formatVars, startVars, proc, scan>>

ServerInit ==
  /\ shape \in ServerShapes
  /\ baseCommand \in ToolBases
  /\ heap = TreeHeap(shape, baseCommand)
  /\ result = 1
  /\ status = "resolved"
  /\ maxDepth = 1
  /\ discovered = {}
  /\ calls = <<>>
  /\ totalDiscovered = 0
  /\ settled = 0
  /\ tools = <<>>
  /\ invoked = NoCall
  /\ helpText = <<>>
  /\ commandName = <<>>
  /\ parseResult = NotParsed
  /\ commandResult = NoResult
  /\ response = <<>>
  /\ argv = <<>>
  /\ cacheContent = MissingFile
  /\ startup = NotStarted
  /\ parsedArgs = NoArgs
  /\ proc = NotRun
  /\ scan = NotScanning
  /\ registered = NotRegistering

ServerNext ==
  \/ Convert
  \/ Register
  \/ \E i \in DOMAIN tools : \E params \in ParamSets : Execute(i, params)
  \/ \E parsed \in ParsedCommands : ExecuteRaw(parsed)

ServerSpec == ServerInit /\ [][ServerNext]_vars

\* ------------------------------------------------------------------------
\* parseHelpText as a function of its two arguments: the help texts are a
\* head followed by two blocks
\* ------------------------------------------------------------------------
UsageLine == <<"U","s","a","g","e",":"," ","a","z"," ","[","c","o","m","m","a","n","d","]">>

AboutLine == <<"M","a","n","a","g","e"," ","t","h","i","n","g","s">>

TextHeads == { <<>>, <<UsageLine>>, <<Az, AboutLine>>, <<AboutLine, UsageLine>> }

CommandsBlock ==
  << <<"C","o","m","m","a","n","d","s",":">>,
     <<" "," ","v","m"," "," "," ","A","b","o","u","t"," ","v","m">>,
     <<" "," ","h","e","l","p"," "," ","S","h","o","w"," ","h","e","l","p">>,
     <<" "," ","l","s"," "," "," ","A","b","o","u","t"," ","l","s">> >>

AvailableBlock ==
  << <<"A","v","a","i","l","a","b","l","e"," ","C","o","m","m","a","n","d","s",":">>,
     <<" "," ","n","e","t"," "," ","A","b","o","u","t"," ","n","e","t">>,
     <<" "," ","v","m"," "," "," ","A","g","a","i","n">> >>

FlagsBlock ==
  << <<"F","l","a","g","s",":">>,
     <<" "," ","-","h",","," ","-","-","h","e","l","p"," "," ","S","h","o","w"," ","h","e","l","p">> >>

ArgumentsBlock ==
  << <<"A","r","g","u","m","e","n","t","s",":">>,
     <<" "," ","<","n","a","m","e",">"," "," ","T","h","e"," ","n","a","m","e">>,
     <<" "," ","[","p","a","t","h","]"," "," ","T","h","e"," ","p","a","t","h">> >>

\* a line on which parseHelp raises
GarbledBlock == << <<"~","#","!">> >>

TextBlocks ==
  { <<>>, CommandsBlock, AvailableBlock, FlagsBlock, ArgumentsBlock, GarbledBlock }

HelpTexts == { h \o a \o b : h \in TextHeads, a \in TextBlocks, b \in TextBlocks }

CommandNames == { Az, <<>> }

ParseInit ==
  /\ helpText \in HelpTexts
  /\ commandName \in CommandNames
  /\ parseResult = NotParsed
  /\ commandResult = NoResult
  /\ response = <<>>
  /\ argv = <<>>
  /\ cacheContent = MissingFile
  /\ startup = NotStarted
  /\ parsedArgs = NoArgs
  /\ proc = NotRun
  /\ scan = NotScanning
  /\ registered = NotRegistering
  /\ shape = "tree"
  /\ baseCommand = Az
  /\ maxDepth = 0
  /\ heap = <<>>
  /\ discovered = {}
  /\ calls = <<>>
  /\ totalDiscovered = 0
  /\ status = "idle"
  /\ result = 0
  /\ settled = 0
  /\ tools = <<>>
  /\ invoked = NoCall

\* parseHelpText(helpText, commandName) is called
Parse ==
  /\ parseResult = NotParsed
  /\ parseResult' = parseHelpText(helpText, commandName)
  /\ UNCHANGED <<shape, baseCommand, maxDepth, heap, discovered, calls,
                 totalDiscovered, status, result, settled, tools, invoked,
                 helpText, commandName, formatVars, startVars, proc, scan, registered>>

ParseSpec == ParseInit /\ [][Parse]_vars

\* ------------------------------------------------------------------------
\* responseFormatter.ts: formatCommandResponse as a function of its argument
\* ------------------------------------------------------------------------
Digits == <<"0","1","2","3","4","5","6","7","8","9">>

\* `${n}` for an integer n
RECURSIVE NumberToString(_)
NumberToString(n) ==
  IF n < 0 THEN <<"-">> \o NumberToString(0 - n)
  ELSE IF n < 10 THEN <<Digits[n + 1]>>
  ELSE NumberToString(n \div 10) \o <<Digits[(n % 10) + 1]>>

ErrorsHeading == <<"\n","\n","E","r","r","o","r","s",":","\n">>

ExitCodeHeading == <<"\n","\n","E","x","i","t"," ","c","o","d","e",":"," ">>

NoOutputMessage == <<"C","o","m","m","a","n","d"," ","c","o","m","p","l","e","t","e","d"," ","s","u","c","c","e","s","s","f","u","l","l","y"," ","w","i","t","h"," ","n","o"," ","o","u","t","p","u","t",".">>

\* a response without the exit code (a faulty variant of
\* formatCommandResponse)
formatWithoutExitCode(res) ==
  LET c1 == res.stdout
      c2 == IF res.stderr # <<>>
            THEN c1 \o (IF c1 # <<>> THEN ErrorsHeading ELSE <<>>) \o res.stderr
            ELSE c1
  IN  [type |-> "text", text |-> IF c2 # <<>> THEN c2 ELSE NoOutputMessage]

\* formatCommandResponse(result): the one element of content
formatCommandResponse(res) ==
  LET c1 == IF res.stdout # <<>> THEN res.stdout ELSE <<>>
      c2 == IF res.stderr # <<>>
            THEN c1 \o (IF c1 # <<>> THEN ErrorsHeading ELSE <<>>) \o res.stderr
            ELSE c1
      c3 == IF res.exitCode # 0
            THEN c2 \o ExitCodeHeading \o NumberToString(res.exitCode)
            ELSE c2
  IN  [type |-> "text", text |-> IF c3 # <<>> THEN c3 ELSE NoOutputMessage]

Stdouts == { <<>>, <<"o","k">>, <<"a","\n","b">>, <<" ">> }

Stderrs == { <<>>, <<"w","a","r","n">>, <<"E","r","r","o","r",":"," ","E","m","p","t","y"," ","b","a","s","e"," ","c","o","m","m","a","n","d"," ","p","r","o","v","i","d","e","d">>, <<"s","h",":"," ","1",":"," ","a","z",":"," ","n","o","t"," ","f","o","u","n","d","\n">> }

ExitCodes == { 0, 1, 2, 0 - 1, 127, 255 }

FormatInit ==
  /\ commandResult \in [stdout : Stdouts, stderr : Stderrs, exitCode : ExitCodes]
  /\ response = <<>>
  /\ helpText = <<>>
  /\ commandName = <<>>
  /\ parseResult = NotParsed
  /\ argv = <<>>
  /\ cacheContent = MissingFile
  /\ startup = NotStarted
  /\ parsedArgs = NoArgs
  /\ proc = NotRun
  /\ scan = NotScanning
  /\ registered = NotRegistering
  /\ shape = "tree"
  /\ baseCommand = Az
  /\ maxDepth = 0
  /\ heap = <<>>
  /\ discovered = {}
  /\ calls = <<>>
  /\ totalDiscovered = 0
  /\ status = "idle"
  /\ result = 0
  /\ settled = 0
  /\ tools = <<>>
  /\ invoked = NoCall

\* a tool handler's `return formatCommandResponse(result)`
Format ==
  /\ response = <<>>
  /\ response' = formatCommandResponse(commandResult).text
  /\ UNCHANGED <<shape, baseCommand, maxDepth, heap, discovered, calls,
                 totalDiscovered, status, result, settled, tools, invoked,
                 parserVars, commandResult, startVars, proc, scan, registered>>

FormatSpec == FormatInit /\ [][Format]_vars

\* ------------------------------------------------------------------------
\* index.ts, args.ts, cache.ts, server.ts: start-up up to the first await
\* ------------------------------------------------------------------------
Null == <<"null">>

\* !x for a string, undefined or null
Falsy(x) == x \in {Undefined, Null, <<>>}

CacheBuildFlag == <<"-","-","c","a","c","h","e","-","b","u","i","l","d">>

CacheFileFlag == <<"-","-","c","a","c","h","e","-","f","i","l","e">>

\* args.indexOf(x), 1-based; 0 for -1
indexOf(args, x) ==
  IF \E i \in DOMAIN args : args[i] = x
  THEN CHOOSE i \in DOMAIN args : args[i] = x /\ \A j \in 1..(i - 1) : args[j] # x
  ELSE 0

\* args[i], 1-based
At(args, i) == IF i \in DOMAIN args THEN args[i] ELSE Undefined

detectCacheFile(args) ==
  LET hits == {i \in DOMAIN args :
                 endsWith(args[i], <<"_","c","a","c","h","e",".","j","s","o","n">>) /\ ~ startsWith(args[i], <<"-">>)}
  IN  IF hits = {} THEN Null ELSE args[CHOOSE i \in hits : \A j \in hits : i <= j]

\* the loop of parseArgs over remainingArgs from index i on: [filteredArgs,
\* cacheFile]
RECURSIVE FilterArgs(_, _, _, _)
FilterArgs(remainingArgs, i, filteredArgs, cacheFile) ==
  IF i > Len(remainingArgs) THEN [filteredArgs |-> filteredArgs, cacheFile |-> cacheFile]
  ELSE IF remainingArgs[i] = CacheFileFlag
  THEN FilterArgs(remainingArgs, i + 2, filteredArgs,
                  IF Falsy(At(remainingArgs, i + 1)) THEN Null
                  ELSE At(remainingArgs, i + 1))
  ELSE FilterArgs(remainingArgs, i + 1, Append(filteredArgs, remainingArgs[i]), cacheFile)

parseArgs(args) ==
  LET cacheBuildIndex == indexOf(args, CacheBuildFlag)
      cacheFileIndex  == indexOf(args, CacheFileFlag)
      cacheFileArg    == detectCacheFile(args)
      cacheFile       == IF cacheFileIndex # 0 THEN At(args, cacheFileIndex + 1) ELSE Null
  IN  IF cacheBuildIndex = 0 /\ ~ Falsy(cacheFileArg)
      THEN [command |-> Undefined, cacheBuild |-> FALSE, cacheFile |-> cacheFileArg]
      ELSE IF cacheBuildIndex = 0 /\ Len(args) > 0 /\ ~ startsWith(args[1], <<"-">>)
      THEN [command |-> args[1], cacheBuild |-> FALSE, cacheFile |-> cacheFile]
      ELSE IF cacheBuildIndex = 0
      THEN [command |-> Undefined, cacheBuild |-> FALSE, cacheFile |-> cacheFile]
      ELSE LET f == FilterArgs(Drop(args, cacheBuildIndex + 1), 1, <<>>, Null)
           IN  [command    |-> IF join(f.filteredArgs, <<" ">>) = <<>> THEN Undefined
                               ELSE join(f.filteredArgs, <<" ">>),
                cacheBuild |-> TRUE,
                cacheFile  |-> f.cacheFile]

\* what JSON.parse gives for the content of a cache file: `command` a string
\* or absent, `timestamp` a number, a string or absent, `data` absent or an
\* object with the fields `fields`; NoCache is loadCommandCache's null
JsonFile(command, timestamp, data) ==
  [kind |-> "json", command |-> command, timestamp |-> timestamp, data |-> data]

GarbledFile == [kind |-> "garbled"]

NoCache == [kind |-> "null"]

NoData == [present |-> FALSE, fields |-> {}]

DataWith(fields) == [present |-> TRUE, fields |-> fields]

\* loadCommandCache(cacheFile), content being what the file holds
loadCommandCache(content) ==
  IF content.kind = "missing" THEN NoCache
  ELSE IF content.kind = "garbled" THEN NoCache
  ELSE IF Falsy(content.command) \/ ~ content.data.present \/ content.timestamp # "number"
  THEN NoCache
  ELSE content

NodeFields == {"name", "description", "subcommands", "options", "arguments"}

\* convertCommandToTools(cache.data, baseCommand) raises a TypeError: it
\* iterates command.options and command.arguments and reads
\* command.subcommands.length
ConvertThrows(data) == ~ ({"options", "arguments", "subcommands"} \subseteq data.fields)

\* startMcpServer(baseCommand, cacheFile) up to its first await or to
\* convertCommandToTools
startMcpServer(base, cacheFile, content) ==
  IF ~ Falsy(cacheFile)
  THEN LET cache == loadCommandCache(content)
       IN  IF cache # NoCache /\ cache.command = base
           THEN IF ConvertThrows(cache.data)
                THEN [phase |-> "crashed", command |-> base, from |-> "cache"]
                ELSE [phase |-> "serving", command |-> base, from |-> "cache"]
           ELSE [phase |-> "discovering", command |-> base, from |-> "discovery"]
  ELSE [phase |-> "discovering", command |-> base, from |-> "discovery"]

Exit(code) == [phase |-> "exit", command |-> Undefined, from |-> "none"]

\* main()
main(args, content) ==
  LET a == parseArgs(args)
  IN  IF a.cacheBuild
      THEN IF Falsy(a.command) THEN Exit(1)
           ELSE [phase |-> "building", command |-> a.command, from |-> "discovery"]
      ELSE IF ~ Falsy(a.cacheFile) /\ Falsy(a.command)
      THEN LET cache == loadCommandCache(content)
           IN  IF cache = NoCache THEN Exit(1)
               ELSE startMcpServer(cache.command, a.cacheFile, content)
      ELSE IF Falsy(a.command) THEN Exit(1)
      ELSE startMcpServer(a.command, a.cacheFile, content)

CacheName == <<"a","z","_","c","a","c","h","e",".","j","s","o","n">>

PlainName == <<"c",".","j","s","o","n">>

ArgvSet ==
  { <<>>, <<Az>>, <<CacheName>>, <<Az, CacheFileFlag, CacheName>>,
    <<Az, CacheFileFlag, PlainName>>, <<CacheFileFlag, PlainName>>,
    <<Vm, CacheFileFlag, CacheName>>, <<Vm, CacheFileFlag, PlainName>>,
    <<Az, CacheFileFlag>>, <<CacheBuildFlag>>, <<CacheBuildFlag, Az>>,
    <<CacheBuildFlag, Az, CacheFileFlag, PlainName>> }

Timestamps == {"number", "string", "absent"}

DataObjects ==
  { NoData, DataWith(NodeFields), DataWith({"name", "description"}),
    DataWith({"name", "description", "subcommands"}),
    DataWith({"subcommands", "options", "arguments"}) }

CacheContents ==
  {MissingFile, GarbledFile}
  \cup { JsonFile(c, t, d) : c \in {Az, Vm, Undefined}, t \in Timestamps, d \in DataObjects }

StartInit ==
  /\ argv \in ArgvSet
  /\ cacheContent \in CacheContents
  /\ startup = NotStarted
  /\ parsedArgs = NoArgs
  /\ proc = NotRun
  /\ scan = NotScanning
  /\ registered = NotRegistering
  /\ commandResult = NoResult
  /\ response = <<>>
  /\ helpText = <<>>
  /\ commandName = <<>>
  /\ parseResult = NotParsed
  /\ shape = "tree"
  /\ baseCommand = Az
  /\ maxDepth = 0
  /\ heap = <<>>
  /\ discovered = {}
  /\ calls = <<>>
  /\ totalDiscovered = 0
  /\ status = "idle"
  /\ result = 0
  /\ settled = 0
  /\ tools = <<>>
  /\ invoked = NoCall

\* the program is started
Main ==
  /\ startup = NotStarted
  /\ parsedArgs' = parseArgs(argv)
  /\ startup' = main(argv, cacheContent)
  /\ UNCHANGED <<shape, baseCommand, maxDepth, heap, discovered, calls,
                 totalDiscovered, status, result, settled, tools, invoked,
                 parserVars, formatVars, argv, cacheContent, proc, scan, registered>>

StartSpec == StartInit /\ [][Main]_vars

\* ------------------------------------------------------------------------
\* processUtils.ts: runProcess as the callbacks it installs.  proc holds the
\* call: the timer, what the data handlers have accumulated, the promise, and
\* for the record every call of resolve in the order it was made (resolved).
\* spawn returns a child process, as it does for the non-empty command
\* strings main and executeCommand let through.
\* ------------------------------------------------------------------------
\* the most chunks a stream delivers in the model
MaxChunks == 2

\* the first argument of the close handler: null when a signal ended the child
ExitedWith(n) == [null |-> FALSE, n |-> n]

KilledBySignal == [null |-> TRUE, n |-> 0]

\* `code || 0`
CodeOrZero(code) == IF code.null THEN 0 ELSE code.n

Pending == [state |-> "pending", value |-> NoResult]

\* a resolve that settles the promise again on every call (a faulty variant of
\* resolve)
resolveAgain(promise, value) == [state |-> "fulfilled", value |-> value]

\* the resolve function of `new Promise(resolve => ...)`: the first call
\* settles the promise, a later call does nothing
resolve(promise, value) ==
  IF promise.state = "pending" THEN [state |-> "fulfilled", value |-> value]
  ELSE promise

\* clearTimeout(timeoutHandle)
clearTimeout(timer) == IF timer = "armed" THEN "cleared" ELSE timer

\* one callback calls resolve with value
Resolving(p, by, value) ==
  [p EXCEPT !.promise = resolve(@, value),
            !.resolved = Append(@, [by |-> by, value |-> value])]

RunCommands == {Az, Xx}

RunArgs == {<<>>, <<Vm, HelpFlag>>}

Chunks == {<<"o","u","t">>, <<"e","r","r","o","r",":"," ","n","o">>}

ExitStatuses == {ExitedWith(0), ExitedWith(1), ExitedWith(0 - 2), KilledBySignal}

ErrorMessages == {<<"s","p","a","w","n"," ","x","x"," ","E","N","O","E","N","T">>,
                  <<"s","p","a","w","n"," ","E","A","C","C","E","S">>}

\* what runProcess does not touch
notProc == <<shape, baseCommand, maxDepth, heap, discovered, calls,
             totalDiscovered, status, result, settled, tools, invoked,
             parserVars, formatVars, startVars, scan, registered>>

\* runProcess(command, args): the executor of the promise arms the timer,
\* spawns the child and installs the handlers
RunProcess ==
  /\ proc = NotRun
  /\ \E command \in RunCommands, args \in RunArgs :
        proc' = [phase |-> "running", command |-> command, args |-> args,
                 timer |-> "armed", stdout |-> <<>>, stderr |-> <<>>,
                 closed |-> FALSE, errored |-> FALSE,
                 promise |-> Pending, resolved |-> <<>>]
  /\ UNCHANGED notProc

\* proc.stdout.on('data', ...)
StdoutData ==
  /\ proc.phase = "running" /\ ~proc.closed /\ Len(proc.stdout) < MaxChunks
  /\ \E data \in Chunks : proc' = [proc EXCEPT !.stdout = Append(@, data)]
  /\ UNCHANGED notProc

\* proc.stderr.on('data', ...)
StderrData ==
  /\ proc.phase = "running" /\ ~proc.closed /\ Len(proc.stderr) < MaxChunks
  /\ \E data \in Chunks : proc' = [proc EXCEPT !.stderr = Append(@, data)]
  /\ UNCHANGED notProc

\* the callback of setTimeout; the child is left running
TimerFires ==
  /\ proc.phase = "running" /\ proc.timer = "armed"
  /\ proc' = Resolving([proc EXCEPT !.timer = "fired"], "timeout",
                       TimeoutResult(proc.command, proc.args))
  /\ UNCHANGED notProc

\* proc.on('close', ...)
ProcessClose ==
  /\ proc.phase = "running" /\ ~proc.closed
  /\ \E code \in ExitStatuses :
        proc' = Resolving([proc EXCEPT !.timer = clearTimeout(@), !.closed = TRUE],
                          "close",
                          CloseResult(proc.stdout, proc.stderr, CodeOrZero(code)))
  /\ UNCHANGED notProc

\* proc.on('error', ...): a failed spawn emits error before close
ProcessError ==
  /\ proc.phase = "running" /\ ~proc.closed /\ ~proc.errored
  /\ \E message \in ErrorMessages :
        proc' = Resolving([proc EXCEPT !.timer = clearTimeout(@), !.errored = TRUE],
                          "error", ErrorResult(proc.stdout, message))
  /\ UNCHANGED notProc

RunNext ==
  RunProcess \/ StdoutData \/ StderrData \/ TimerFires \/ ProcessClose
    \/ ProcessError

RunInit ==
  /\ proc = NotRun
  /\ scan = NotScanning
  /\ registered = NotRegistering
  /\ argv = <<>>
  /\ cacheContent = MissingFile
  /\ startup = NotStarted
  /\ parsedArgs = NoArgs
  /\ commandResult = NoResult
  /\ response = <<>>
  /\ helpText = <<>>
  /\ commandName = <<>>
  /\ parseResult = NotParsed
  /\ shape = "tree"
  /\ baseCommand = Az
  /\ maxDepth = 0
  /\ heap = <<>>
  /\ discovered = {}
  /\ calls = <<>>
  /\ totalDiscovered = 0
  /\ status = "idle"
  /\ result = 0
  /\ settled = 0
  /\ tools = <<>>
  /\ invoked = NoCall

RunSpec == RunInit /\ [][RunNext]_vars

\* ------------------------------------------------------------------------
\* helpParser.ts: the loops of parseSubcommandsFromText, one iteration of the
\* inner loop at a time.  scan holds the command sections, the section k and
\* the 1-based line index i the loop is at, the subcommands pushed so far and,
\* for the record, one span for every push: the section, the entry line, the
\* endIndex extractMultiLineDescription returned and the descriptions it was
\* given and gave back.
\* ------------------------------------------------------------------------
CommandsHeading == <<"C","o","m","m","a","n","d","s",":">>

\* an entry, an entry whose name is on the deny list, two indented lines that
\* are no entries, and a line that is not indented
SectionLines ==
  { <<" "," ","v","m"," "," "," ","A","b","o","u","t"," ","v","m">>,
    <<" "," ","h","e","l","p"," "," ","S","h","o","w"," ","h","e","l","p">>,
    <<" "," "," "," "," "," ","(","s","e","e"," ","d","o","c","s",")"," ">>,
    <<" "," "," "," "," "," ","w","o","r","d">>,
    <<"N","o","t","e",":"," ","x">> }

\* the most lines the first section of a text has in the model
MaxSectionLines == 3

RECURSIVE LineSeqs(_)
LineSeqs(n) ==
  IF n = 0 THEN {<<>>}
  ELSE LineSeqs(n - 1)
         \cup {Append(s, l) : s \in {t \in LineSeqs(n - 1) : Len(t) = n - 1},
                              l \in SectionLines}

ScanTexts ==
  { <<AboutLine, CommandsHeading>> \o s \o tail :
      s \in LineSeqs(MaxSectionLines),
      tail \in {<<>>, <<<<>>>> \o AvailableBlock
                        \o << <<" "," "," "," "," "," ","A","n","d"," ","m","o","r","e">> >>} }

RECURSIVE SelectCommandSections(_)
SelectCommandSections(sections) ==
  IF sections = <<>> THEN <<>>
  ELSE (IF IsCommandSection(sections[1]) THEN <<sections[1]>> ELSE <<>>)
       \o SelectCommandSections(Tail(sections))

notScan == <<shape, baseCommand, maxDepth, heap, discovered, calls,
             totalDiscovered, status, result, settled, tools, invoked,
             parserVars, formatVars, startVars, proc, registered>>

\* parseSubcommandsFromText(helpText) up to its loops
BeginScan ==
  /\ scan = NotScanning
  /\ scan' = IF helpText = <<>> \/ isTerminalCommand(helpText)
             THEN [phase |-> "returned", sections |-> <<>>, k |-> 1, i |-> 1,
                   subcommands |-> <<>>, spans |-> <<>>]
             ELSE [phase |-> "scanning",
                   sections |-> SelectCommandSections(parseHelpSections(helpText)),
                   k |-> 1, i |-> 1, subcommands |-> <<>>, spans |-> <<>>]
  /\ UNCHANGED notScan

\* one iteration of `for (let i = 0; i < section.content.length; i++)` with
\* its i++
ScanLine ==
  /\ scan.phase = "scanning"
  /\ scan.k <= Len(scan.sections)
  /\ scan.i <= Len(scan.sections[scan.k].content)
  /\ LET content == scan.sections[scan.k].content
         match   == MatchCommandEntry(content[scan.i])
     IN  IF ~match.ok \/ ~validateCommandName(match.name)
         THEN scan' = [scan EXCEPT !.i = @ + 1]
         ELSE LET description == cleanDescription(trim(match.rest))
                  multi       == extractMultiLineDescription(content, scan.i, description)
              IN  scan' = [scan EXCEPT
                     !.subcommands = Append(@, EmptyCommand(match.name, multi.description)),
                     !.spans = Append(@, [section |-> scan.k, startIndex |-> scan.i,
                                          endIndex |-> multi.endIndex,
                                          initial |-> description,
                                          description |-> multi.description]),
                     !.i = multi.endIndex + 1]
  /\ UNCHANGED notScan

\* the inner loop ends: `for (const section of commandSections)` goes on
NextSection ==
  /\ scan.phase = "scanning"
  /\ scan.k <= Len(scan.sections)
  /\ scan.i > Len(scan.sections[scan.k].content)
  /\ scan' = [scan EXCEPT !.k = @ + 1, !.i = 1]
  /\ UNCHANGED notScan

\* `return subcommands`
ScanReturn ==
  /\ scan.phase = "scanning"
  /\ scan.k > Len(scan.sections)
  /\ scan' = [scan EXCEPT !.phase = "returned"]
  /\ UNCHANGED notScan

ScanNext == BeginScan \/ ScanLine \/ NextSection \/ ScanReturn

ScanInit ==
  /\ helpText \in ScanTexts
  /\ commandName = Az
  /\ parseResult = NotParsed
  /\ scan = NotScanning
  /\ registered = NotRegistering
  /\ proc = NotRun
  /\ argv = <<>>
  /\ cacheContent = MissingFile
  /\ startup = NotStarted
  /\ parsedArgs = NoArgs
  /\ commandResult = NoResult
  /\ response = <<>>
  /\ shape = "tree"
  /\ baseCommand = Az
  /\ maxDepth = 0
  /\ heap = <<>>
  /\ discovered = {}
  /\ calls = <<>>
  /\ totalDiscovered = 0
  /\ status = "idle"
  /\ result = 0
  /\ settled = 0
  /\ tools = <<>>
  /\ invoked = NoCall

ScanSpec == ScanInit /\ [][ScanNext]_vars

\* ------------------------------------------------------------------------
\* What the claims speak about
\* ------------------------------------------------------------------------
Resolved == status = "resolved"

\* the help acquisitions that have started and have not settled
InFlight == {f \in DOMAIN calls : calls[f].st = "help"}

\* the number of subcommand names below the object id in the tree under it
RECURSIVE Height(_, _)
RECURSIVE MaxHeight(_, _)
Height(h, id) ==
  IF h[id].subcommands = <<>> THEN 0 ELSE 1 + MaxHeight(h, h[id].subcommands)

MaxHeight(h, ids) ==
  IF ids = <<>> THEN 0
  ELSE LET a == Height(h, ids[1])
           b == MaxHeight(h, Tail(ids))
       IN  IF a > b THEN a ELSE b

\* the tree under the object id as a value: subcommands are trees
RECURSIVE TreeOf(_, _)
RECURSIVE TreesOf(_, _)
TreeOf(h, id) == [h[id] EXCEPT !.subcommands = TreesOf(h, @)]

TreesOf(h, ids) ==
  IF ids = <<>> THEN <<>> ELSE <<TreeOf(h, ids[1])>> \o TreesOf(h, Tail(ids))

\* the names of the objects ids
RECURSIVE NamesOf(_, _)
NamesOf(h, ids) ==
  IF ids = <<>> THEN <<>> ELSE <<h[ids[1]].name>> \o NamesOf(h, Tail(ids))

\* the names of a sequence of CliCommand values
RECURSIVE NamesIn(_)
NamesIn(cmds) == IF cmds = <<>> THEN <<>> ELSE <<cmds[1].name>> \o NamesIn(Tail(cmds))

IsBare(node) ==
  node.subcommands = <<>> /\ node.options = <<>> /\ node.arguments = <<>>

\* C1: when discoverAllCommands has resolved, no node of the returned tree
\* lies more than maxDepth subcommand names below the root.
C1_DepthBound == Resolved => Height(heap, result) <= maxDepth

\* C2: at every moment of a run at most concurrencyLimit help acquisitions
\* have started and not settled.
C2_ConcurrencyCap == Cardinality(InFlight) <= concurrencyLimit

\* the fields a merge copies, as the parser made them from the text the call
\* f got: the names of the subcommands, the options and the arguments
ParsedOf(f) ==
  parseHelpText(getCommandHelp(calls[f].res).text,
                IF calls[f].depth = 0 THEN baseCommand
                ELSE LastOr(calls[f].args, baseCommand))

ExpandedAsParsed(f, id) ==
  /\ NamesOf(heap, heap[id].subcommands) = NamesIn(ParsedOf(f).subcommands)
  /\ heap[id].options = ParsedOf(f).options
  /\ heap[id].arguments = ParsedOf(f).arguments

\* the calls that expand a stub (all but the root call) and have returned
ReturnedStubCalls == {f \in DOMAIN calls : calls[f].st = "done" /\ calls[f].parent # 0}

\* C3: a failure of one help acquisition stays local.  The promise of
\* discoverAllCommands never rejects; it is pending only while an acquisition
\* is in flight; and once it has resolved, the stub of every call whose
\* acquisition threw is bare (no subcommands, options, arguments), while the
\* stub of every other call, in the same batch or a later one, holds exactly
\* what the parser made of that stub's own help text.
C3_FailureIsLocal ==
  /\ status # "rejected"
  /\ (status = "running" => InFlight # {})
  /\ Resolved =>
       \A f \in ReturnedStubCalls :
          IF calls[f].threw THEN IsBare(heap[calls[f].stub])
          ELSE ExpandedAsParsed(f, calls[f].stub)

\* a run in which the acquisition of a stub of the first batch threw and a
\* stub of the second batch was expanded with a subcommand of its own
C3_Witness ==
  /\ Resolved
  /\ \E f, g \in ReturnedStubCalls :
        /\ calls[f].parent = calls[g].parent
        /\ calls[f].threw /\ ~calls[g].threw
        /\ f < g
        /\ heap[calls[g].stub].subcommands # <<>>

\* C4: whenever runProcess reports a spawn error, a non-zero exit code or a
\* timeout (exitCode # 0) for a call's acquisition, the call returns the
\* default empty node: its name, an empty description, nothing else.
C4_FailedAcquisitionGivesDefault ==
  \A f \in DOMAIN calls :
     (calls[f].st = "done" /\ calls[f].res.exitCode # 0)
        => heap[calls[f].ret] = DefaultNode(baseCommand, calls[f].args)

\* a step in which an acquisition settles, told by the count of the settled
\* ones: the steps of Settle, and no others, are such steps, and one is
\* possible exactly when Settle is possible for some call
SettleStep ==
  /\ status = "running"
  /\ Len(calls) < MaxCalls
  /\ InFlight # {}
  /\ settled' = settled + 1

\* the acquisitions of a run are fair: runProcess settles every one of them,
\* by its timer at the latest, and the event loop then runs its continuations
LiveSpec == Spec /\ WF_settled(SettleStep)

\* C5: once called, discoverAllCommands eventually resolves, for every wrapped
\* program of the model (the self-referential one included) and every
\* maxDepth; it starts fewer than MaxCalls acquisitions, and none is in flight
\* once it has resolved.
C5_Terminates ==
  /\ (status = "running") ~> Resolved
  /\ [](Len(calls) < MaxCalls)
  /\ [](Resolved => InFlight = {})

\* a resolved run on the program whose every help text lists the command
\* itself: one acquisition for each depth 0..maxDepth
C5_Witness ==
  /\ Resolved
  /\ shape = "self"
  /\ maxDepth >= 2
  /\ Len(calls) = maxDepth + 1
  /\ Height(heap, result) > 1

\* the tree a run returns when every acquisition settles in the order in which
\* it was started, as a value: the parse of the text at args, its stubs
\* merged with the trees of their own paths while depth < maxDepth
RECURSIVE Expected(_, _, _)
RECURSIVE ExpectedStubs(_, _, _, _)
Expected(sh, args, depth) ==
  IF depth > maxDepth THEN DefaultNode(baseCommand, args)
  ELSE LET pc == parseHelpText(HelpOf(sh, baseCommand, args),
                               IF depth = 0 THEN baseCommand
                               ELSE LastOr(args, baseCommand))
       IN  IF depth < maxDepth
           THEN [pc EXCEPT !.subcommands = ExpectedStubs(sh, args, depth, @)]
           ELSE pc

ExpectedStubs(sh, args, depth, stubs) ==
  IF stubs = <<>> THEN <<>>
  ELSE LET sub == Expected(sh, Append(args, stubs[1].name), depth + 1)
       IN  << [stubs[1] EXCEPT
                 !.subcommands = sub.subcommands,
                 !.options     = sub.options,
                 !.arguments   = sub.arguments,
                 !.description = IF @ = <<>> /\ sub.description # <<>>
                                 THEN sub.description ELSE @] >>
           \o ExpectedStubs(sh, args, depth, Tail(stubs))

\* C6: against a program that gives the same help text at a path every time
\* it is asked, every run with the same baseCommand and maxDepth returns the
\* same tree, whatever order the acquisitions settle in: the tree is a
\* function of the program, baseCommand and maxDepth alone.
C6_SameTreeEveryOrder ==
  (Resolved /\ shape # "flaky") => TreeOf(heap, result) = Expected(shape, <<>>, 0)

\* a resolved run in which two stubs with one name were both acquired (f, g),
\* the second was then answered from the memo table for its own stub (only
\* one acquisition c of the path below), and the node it was answered with
\* was still being expanded (x was parsed later)
C6_Witness ==
  /\ Resolved
  /\ shape = "dup"
  /\ \E f, g, c, x \in DOMAIN calls :
        /\ f # g
        /\ calls[f].args = calls[g].args
        /\ calls[c].parent = f
        /\ ~ \E c2 \in DOMAIN calls : calls[c2].parent = g
        /\ calls[x].parent = c
        /\ calls[c].at < calls[g].at
        /\ calls[g].at < calls[x].at
        /\ heap[calls[g].node].subcommands # <<>>

\* C7: the subcommand list of every node the run has parsed has the names of
\* the list parsed from that node's own help text, in that order, at every
\* moment of the run; and the stub such a node was merged into has that very
\* list.
C7_ParseOrderKept ==
  \A f \in DOMAIN calls :
     calls[f].node # 0 =>
        /\ NamesOf(heap, heap[calls[f].node].subcommands)
             = NamesIn(ParsedOf(f).subcommands)
        /\ (calls[f].st = "done" /\ calls[f].parent # 0)
             => heap[calls[f].stub].subcommands = heap[calls[f].node].subcommands

\* a resolved run in which, of two stubs of one batch, the later one was
\* parsed and returned first
C7_Witness ==
  /\ Resolved
  /\ \E f, g \in ReturnedStubCalls :
        /\ calls[f].parent = calls[g].parent
        /\ calls[f].stub < calls[g].stub
        /\ calls[f].node # 0 /\ calls[g].node # 0
        /\ calls[g].at < calls[f].at
        /\ heap[calls[f].stub].name # heap[calls[g].stub].name
        /\ Len(heap[calls[calls[f].parent].node].subcommands) >= 2

Converted == tools # <<>>

\* the objects of the tree under id in depth-first pre-order, each with the
\* names of the objects above it, down to those with `cap` names above them
RECURSIVE Nodes(_, _, _, _)
RECURSIVE NodesOf(_, _, _, _)
Nodes(h, id, parentPath, cap) ==
  << [id |-> id, parentPath |-> parentPath] >>
  \o (IF Len(parentPath) < cap
      THEN NodesOf(h, h[id].subcommands, Append(parentPath, h[id].name), cap)
      ELSE <<>>)

NodesOf(h, ids, parentPath, cap) ==
  IF ids = <<>> THEN <<>>
  ELSE Nodes(h, ids[1], parentPath, cap) \o NodesOf(h, Tail(ids), parentPath, cap)

\* the name a node computes for its tool: the base command for the root, the
\* names from the root down that are not the base command, joined by hyphens,
\* for another node (<<>>, no name, when none is left)
ComputedName(h, v, base) ==
  IF v.parentPath = <<>> THEN <<base>>
  ELSE LET path == filterNe(Append(v.parentPath, h[v.id].name), base)
       IN  IF path = <<>> THEN <<>> ELSE <<join(path, Hyphen)>>

\* the tools the nodes vs compute, in their order
RECURSIVE Candidates(_, _, _)
Candidates(h, vs, base) ==
  IF vs = <<>> THEN <<>>
  ELSE (IF ComputedName(h, vs[1], base) = <<>> THEN <<>>
        ELSE << [name        |-> ComputedName(h, vs[1], base)[1],
                 description |-> ToolDescription(h[vs[1].id].description,
                                                 ComputedName(h, vs[1], base)[1]),
                 inputSchema |-> createInputSchema(h[vs[1].id]),
                 id          |-> vs[1].id] >>)
       \o Candidates(h, Tail(vs), base)

AllCandidates == Candidates(heap, Nodes(heap, result, <<>>, MaxPathDepth), baseCommand)

\* of the candidates cs, the first with each name, without the field id
RECURSIVE FirstWins(_, _)
FirstWins(cs, seen) ==
  IF cs = <<>> THEN <<>>
  ELSE IF cs[1].name \in seen THEN FirstWins(Tail(cs), seen)
  ELSE << [name |-> cs[1].name, description |-> cs[1].description,
           inputSchema |-> cs[1].inputSchema] >>
       \o FirstWins(Tail(cs), seen \cup {cs[1].name})

\* C8: the list convertCommandToTools returns has no name twice, and it is
\* the list of the tools the visited nodes compute, in depth-first pre-order,
\* without those whose name an earlier one has: of the nodes with one name the
\* first gives the tool, with its own description and schema.
C8_FirstInPreorderWins ==
  Converted =>
    /\ \A i, j \in DOMAIN tools : i # j => tools[i].name # tools[j].name
    /\ tools = FirstWins(AllCandidates, {})

\* a converted tree in which two nodes with different descriptions compute
\* one name, so that a tool is dropped
C8_Witness ==
  /\ Converted
  /\ Len(tools) < Len(AllCandidates)
  /\ \E i, j \in DOMAIN AllCandidates :
        /\ i < j
        /\ AllCandidates[i].name = AllCandidates[j].name
        /\ AllCandidates[i].description # AllCandidates[j].description
        /\ \E k \in DOMAIN tools :
              /\ tools[k].name = AllCandidates[i].name
              /\ tools[k].description = AllCandidates[i].description

\* the subcommand paths [p1..pk] of the nodes below the root, every node of
\* the tree, in depth-first pre-order
RECURSIVE SubPaths(_, _)
SubPaths(h, vs) ==
  IF vs = <<>> THEN <<>>
  ELSE (IF vs[1].parentPath = <<>> THEN <<>>
        ELSE <<Tail(Append(vs[1].parentPath, h[vs[1].id].name))>>)
       \o SubPaths(h, Tail(vs))

RECURSIVE JoinAll(_)
JoinAll(paths) ==
  IF paths = <<>> THEN <<>> ELSE <<join(paths[1], Hyphen)>> \o JoinAll(Tail(paths))

AllSubPaths == SubPaths(heap, Nodes(heap, result, <<>>, Len(heap)))

\* baseCommand, then p1-...-pk for every node below the root
PathNames == <<baseCommand>> \o JoinAll(AllSubPaths)

RootIsBase == heap[result].name = baseCommand

\* no node below the root has the base command's name, no node lies more than
\* MaxPathDepth names below the root, and no two nodes have one name p1-...-pk
\* or the name of the root's tool
Regular ==
  /\ \A i \in DOMAIN AllSubPaths :
        /\ AllSubPaths[i][Len(AllSubPaths[i])] # baseCommand
        /\ Len(AllSubPaths[i]) <= MaxPathDepth
  /\ \A i, j \in DOMAIN PathNames : i # j => PathNames[i] # PathNames[j]

\* C9 as stated: for every tree whose root is the base command the tools are,
\* in depth-first pre-order, one named baseCommand and one named p1-...-pk for
\* every other node.
C9_EveryNodeItsTool ==
  (Converted /\ RootIsBase) => ToolNames(tools) = PathNames

\* C9, amended: that holds for the trees whose root is the base command, in
\* which no other node has the base command's name, none lies more than
\* MaxPathDepth names below the root and no two nodes compute one name.
C9_EveryNodeItsToolIfRegular ==
  (Converted /\ RootIsBase /\ Regular) => ToolNames(tools) = PathNames

\* a converted regular tree with a node MaxPathDepth names below the root
C9_Witness ==
  /\ Converted
  /\ RootIsBase
  /\ Regular
  /\ \E i \in DOMAIN AllSubPaths : Len(AllSubPaths[i]) = MaxPathDepth
  /\ Len(tools) = MaxPathDepth + 1

\* the names below the object `from` on the way down to the object id (the
\* objects of a tree of the model are distinct)
RECURSIVE PathTo(_, _, _)
RECURSIVE PathVia(_, _, _)
PathTo(h, from, id) == IF from = id THEN <<>> ELSE PathVia(h, h[from].subcommands, id)

PathVia(h, ids, id) ==
  IF ids = <<>> THEN <<"none">>
  ELSE IF ids[1] = id THEN <<h[id].name>>
  ELSE LET below == PathTo(h, ids[1], id)
       IN  IF below # <<"none">> THEN <<h[ids[1]].name>> \o below
           ELSE PathVia(h, Tail(ids), id)

\* the subcommand path of the node that gave the tool its name
OwnerSubPath(toolName) ==
  LET i == CHOOSE k \in DOMAIN AllCandidates :
             /\ AllCandidates[k].name = toolName
             /\ \A m \in 1..(k - 1) : AllCandidates[m].name # toolName
  IN  PathTo(heap, result, AllCandidates[i].id)

\* C10: for every tool of the list and a base command that is not blank,
\* executeCommand(baseCommand, tool.name, {}) runs baseCommand with exactly
\* the names p1, ..., pk of the path of the tool's node (none for the root).
C10_RoundTrip ==
  (Converted /\ invoked # NoCall /\ invoked.given = <<>> /\ trim(baseCommand) # <<>>)
     => /\ invoked.ran
        /\ invoked.command = baseCommand
        /\ invoked.args = OwnerSubPath(invoked.tool)

\* the tokens executeCommand derives from the parameters alone
ParameterTokens(args) == AddEntries(<<>>, args)

\* the segments of the tool name without a first segment equal to the base
SegmentsAfterBase(toolName, base) ==
  LET commandParts == split(toolName, "-")
  IN  IF commandParts # <<>> /\ commandParts[1] = base THEN Tail(commandParts)
      ELSE commandParts

\* a call of executeCommand that ran the base command without `_raw`
RanFromName == invoked # NoCall /\ invoked.ran /\ ~ HasRaw(invoked.given)

\* C11: without the key `_raw`, the tokens executeCommand runs the base
\* command with are the '-'-segments of the tool name, less a first segment
\* equal to the base command and that segment only, in order, followed by the
\* tokens of the parameters.
C11_OnlyBaseSegmentDropped ==
  RanFromName =>
    invoked.args = SegmentsAfterBase(invoked.tool, invoked.command)
                     \o ParameterTokens(invoked.given)

\* the call executeCommand("az", "vm-create", {name: "x", resourceGroup: "rg1",
\* generateSshKeys: true})
VmCreateCall ==
  /\ invoked # NoCall
  /\ invoked.ran
  /\ invoked.command = Az
  /\ invoked.tool = join(<<Vm, Create>>, Hyphen)
  /\ invoked.given = VmCreateParams

\* C12: executeCommand for the tool vm-create of the base command az with
\* {name: "x", resourceGroup: "rg1", generateSshKeys: true} runs az with
\* tokens that begin with vm, create, hold --resource-group directly followed
\* by rg1, and hold --generate-ssh-keys.
C12_VmCreateExample ==
  VmCreateCall =>
    /\ Len(invoked.args) >= 2
    /\ invoked.args[1] = Vm
    /\ invoked.args[2] = Create
    /\ \E i \in 1..(Len(invoked.args) - 1) :
          /\ invoked.args[i] = <<"-","-","r","e","s","o","u","r","c","e","-","g","r","o","u","p">>
          /\ invoked.args[i + 1] = <<"r","g","1">>
    /\ \E i \in DOMAIN invoked.args :
          invoked.args[i] = <<"-","-","g","e","n","e","r","a","t","e","-","s","s","h","-","k","e","y","s">>

\* the parameter object of the last call holds the key `_raw` with a token
\* sequence as its value
GivenRaw ==
  /\ invoked # NoCall
  /\ \E i \in DOMAIN invoked.given :
        invoked.given[i][1] = RawKey /\ invoked.given[i][2].kind = "array"

\* the token sequence given under `_raw`
GivenRawTokens ==
  invoked.given[CHOOSE i \in DOMAIN invoked.given : invoked.given[i][1] = RawKey][2].a

OwnerOf(toolName) ==
  LET i == CHOOSE k \in DOMAIN AllCandidates :
             /\ AllCandidates[k].name = toolName
             /\ \A m \in 1..(k - 1) : AllCandidates[m].name # toolName
  IN  heap[AllCandidates[i].id]

NoProperty == [type |-> "none", description |-> <<>>]

\* the definition a schema has under key
PropertyAt(schema, key) ==
  IF \E i \in DOMAIN schema.properties : schema.properties[i][1] = key
  THEN schema.properties[CHOOSE i \in DOMAIN schema.properties :
                           schema.properties[i][1] = key][2]
  ELSE NoProperty

\* str without its leading dashes
RECURSIVE StripDashes(_)
StripDashes(str) ==
  IF str # <<>> /\ str[1] = "-" THEN StripDashes(Tail(str)) ELSE str

LongProperty(option) == toCamelCase(StripDashes(option.name))

HasShort(option) == option.shortName # Undefined /\ option.shortName # <<>>

TypeOf(option) == IF option.valueRequired THEN "string" ELSE "boolean"

IsRequired(schema, key) ==
  schema.required # Undefined /\ key \in Range(schema.required)

\* what C14 says of the schema made for a node
SchemaAsClaimed(schema, node) ==
  /\ \A i \in DOMAIN node.options :
        LET option == node.options[i]
        IN  /\ PropertyAt(schema, LongProperty(option)).type = TypeOf(option)
            /\ HasShort(option) =>
                  LET alias == PropertyAt(schema, StripDashes(option.shortName))
                  IN  /\ alias.type = TypeOf(option)
                      /\ alias.description
                           = <<"A","l","i","a","s"," ","f","o","r"," ">> \o LongProperty(option)
  /\ \A i \in DOMAIN node.arguments :
        LET key == toCamelCase(node.arguments[i].name)
        IN  /\ PropertyAt(schema, key).type = "string"
            /\ IsRequired(schema, key) <=> node.arguments[i].required
  /\ node.options = <<HelpOption>> /\ node.arguments = <<>>
       => schema.properties
            = << <<<<"h","e","l","p">>, [type |-> "boolean", description |-> <<"h","e","l","p">>]>>,
                 <<<<"h">>, [type |-> "boolean",
                         description |-> <<"A","l","i","a","s"," ","f","o","r"," ","h","e","l","p">>]>> >>

\* the keys createInputSchema assigns for a node, one for every assignment
RECURSIVE OptionKeys(_)
OptionKeys(options) ==
  IF options = <<>> THEN <<>>
  ELSE <<LongProperty(options[1])>>
       \o (IF HasShort(options[1]) THEN <<StripDashes(options[1].shortName)>> ELSE <<>>)
       \o OptionKeys(Tail(options))

RECURSIVE ArgumentKeys(_)
ArgumentKeys(arguments) ==
  IF arguments = <<>> THEN <<>>
  ELSE <<toCamelCase(arguments[1].name)>> \o ArgumentKeys(Tail(arguments))

DistinctKeys(node) ==
  LET keys == OptionKeys(node.options) \o ArgumentKeys(node.arguments)
  IN  \A i, j \in DOMAIN keys : i # j => keys[i] # keys[j]

DashedNames(node) ==
  \A i \in DOMAIN node.options :
     LET option == node.options[i]
     IN  /\ Len(option.name) > 2
         /\ startsWith(option.name, <<"-", "-">>)
         /\ option.name[3] # "-"
         /\ HasShort(option) =>
               /\ Len(option.shortName) = 2
               /\ option.shortName[1] = "-"
               /\ option.shortName[2] # "-"

Parsed == parseResult # NotParsed

\* C15 as stated: for every help text and command name, also an empty or
\* garbled text and one on which parseHelp raises, parseHelpText lets no
\* exception out and returns a node with the given name.
C15_NeverThrowsKeepsName ==
  Parsed => (parseResult # Thrown /\ parseResult.name = commandName)

\* C15, amended: it lets no exception out and returns a node with the given
\* name, or with the name `unknown` when the given name is empty.
C15_NeverThrowsNameOrUnknown ==
  Parsed =>
    /\ parseResult # Thrown
    /\ parseResult.name = IF commandName = <<>> THEN <<"u","n","k","n","o","w","n">>
                           ELSE commandName

\* a text on which parseHelp raised and from which the catch block still read
\* subcommands
C15_Witness ==
  /\ Parsed
  /\ parseHelpThrows(helpText)
  /\ parseResult # Thrown
  /\ parseResult.name = Az
  /\ parseResult.subcommands # <<>>

\* some line of the help text is a command-section header
HasHeaderLine(text) == \E i \in DOMAIN text : MatchCommandSection(text[i]).ok

\* the valid entries of the command sections of the text, in text order
SectionEntries(text) == ScanSections(parseHelpSections(text), 1, <<>>)

\* parseHelpText went past its guard for empty arguments
ParsedText == Parsed /\ helpText # <<>> /\ commandName # <<>>

\* C16: when some line of the help text is a command-section header (also
\* one after a `Usage:` line and before a `Flags:` line), the subcommands are
\* the valid entries of its command sections; the scan is skipped only for a
\* text without such a line.
C16_HeaderLineIsScanned ==
  (ParsedText /\ HasHeaderLine(helpText))
     => parseResult.subcommands = SectionEntries(helpText)

\* a line that heads a section: not indented, ending with a colon
IsHeading(line) == line # <<>> /\ ~ IsWs(line[1]) /\ line[Len(line)] = ":"

IsArgumentsHeading(line) ==
  toLowerCase(line) \in { <<"a","r","g","u","m","e","n","t","s",":">>, <<"a","r","g","s",":">> }

\* the arguments C17 reads from lines[i..]: one for every line `<name> text`
\* or `[name] text` below a heading `Arguments:` or `Args:`, required when
\* written with `<`
RECURSIVE ClaimedArguments(_, _, _)
ClaimedArguments(lines, i, inArguments) ==
  IF i > Len(lines) THEN <<>>
  ELSE IF IsHeading(lines[i])
  THEN ClaimedArguments(lines, i + 1, IsArgumentsHeading(lines[i]))
  ELSE LET match == MatchArgumentEntry(lines[i])
       IN  (IF inArguments /\ match.ok
            THEN << [name |-> match.name, description |-> trim(match.rest),
                     required |-> trimStart(lines[i])[1] = "<"] >>
            ELSE <<>>)
           \o ClaimedArguments(lines, i + 1, inArguments)

\* C17: for a help text with a section headed `Arguments:` (or `Args:`) whose
\* lines are `<name> description` or `[name] description`, parseHelpText
\* returns one argument for every such line, in text order, required exactly
\* for the lines written with `<`.
C17_ArgumentsSectionParsed ==
  ParsedText => parseResult.arguments = ClaimedArguments(helpText, 1, FALSE)

\* the names C18 lists from lines[i..]: of every entry line with a valid name
\* below a command-section header, in text order
RECURSIVE ClaimedNames(_, _, _)
ClaimedNames(lines, i, inSection) ==
  IF i > Len(lines) THEN <<>>
  ELSE IF MatchCommandSection(lines[i]).ok THEN ClaimedNames(lines, i + 1, TRUE)
  ELSE LET match == MatchCommandEntry(lines[i])
       IN  (IF inSection /\ match.ok /\ validateCommandName(match.name)
            THEN <<match.name>> ELSE <<>>)
           \o ClaimedNames(lines, i + 1, inSection)

\* C18: the subcommands parseHelpText returns are the entries of all command
\* sections in text order, every entry with a valid name kept, repeated names
\* as separate entries, and exactly the entries with an invalid name (such as
\* `help`) left out.
C18_EntriesInTextOrder ==
  ParsedText => NamesIn(parseResult.subcommands) = ClaimedNames(helpText, 1, FALSE)

\* formatCommandResponse has returned
Formatted == response # <<>>

\* what follows stdout in the response
AfterStdout == Drop(response, Len(commandResult.stdout) + 1)

ExitCodeLine == ExitCodeHeading \o NumberToString(commandResult.exitCode)

NothingToShow ==
  /\ commandResult.stdout = <<>>
  /\ commandResult.stderr = <<>>
  /\ commandResult.exitCode = 0

\* C19 as stated: the text is stdout, then for a stderr that is not empty,
\* also after an empty stdout, a section `Errors:` with stderr, then for an
\* exit code other than 0 the line `Exit code: N`; the message for no output
\* is the text only when stdout and stderr are empty and the exit code is 0.
C19_ErrorsSectionAlways ==
  Formatted =>
    /\ startsWith(response, commandResult.stdout) \/ NothingToShow
    /\ commandResult.stderr # <<>>
         => startsWith(AfterStdout, ErrorsHeading \o commandResult.stderr)
            \/ startsWith(AfterStdout, <<"E","r","r","o","r","s",":","\n">> \o commandResult.stderr)
    /\ commandResult.exitCode # 0 => endsWith(response, ExitCodeLine)
    /\ (response = NoOutputMessage) <=> NothingToShow

\* C19, amended: the section heading `Errors:` stands between stdout and
\* stderr only when stdout is not empty; after an empty stdout the text
\* begins with stderr itself.  Nothing else is in the text.
C19_ErrorsHeadingAfterStdout ==
  Formatted =>
    /\ startsWith(response, commandResult.stdout) \/ NothingToShow
    /\ (commandResult.stderr # <<>> /\ commandResult.stdout # <<>>)
         => startsWith(AfterStdout, ErrorsHeading \o commandResult.stderr)
    /\ (commandResult.stderr # <<>> /\ commandResult.stdout = <<>>)
         => startsWith(response, commandResult.stderr)
    /\ commandResult.exitCode # 0 => endsWith(response, ExitCodeLine)
    /\ (response = NoOutputMessage) <=> NothingToShow
    /\ ~ NothingToShow =>
         Len(response) = Len(commandResult.stdout) + Len(commandResult.stderr)
                         + (IF commandResult.stderr # <<>> /\ commandResult.stdout # <<>>
                            THEN Len(ErrorsHeading) ELSE 0)
                         + (IF commandResult.exitCode # 0 THEN Len(ExitCodeLine) ELSE 0)

\* a result with stdout, stderr and an exit code of several digits, formatted
C19_Witness ==
  /\ Formatted
  /\ commandResult.stdout # <<>>
  /\ commandResult.stderr # <<>>
  /\ commandResult.exitCode = 127
  /\ includes(response, ErrorsHeading)
  /\ endsWith(response, <<"1","2","7">>)

\* main has run
Started == startup # NotStarted

\* a cache file was named, and not for --cache-build
CacheGiven == ~ parseArgs(argv).cacheBuild /\ ~ Falsy(parseArgs(argv).cacheFile)

\* the cache file is missing, is not JSON, or lacks command, timestamp, data
\* or a CommandNode field inside data
Unusable(content) ==
  \/ content.kind \in {"missing", "garbled"}
  \/ /\ content.kind = "json"
     /\ \/ Falsy(content.command)
        \/ content.timestamp # "number"
        \/ ~ content.data.present
        \/ content.data.fields # NodeFields

\* C20: for every cache file that is missing, is not JSON or lacks a
\* required field, given with a command or alone, start-up goes on to a fresh
\* discovery: it neither exits nor crashes, and does not serve from the cache.
C20_UnusableCacheFallsBack ==
  (Started /\ CacheGiven /\ Unusable(cacheContent)) => startup.phase = "discovering"

\* runProcess has been called
Running == proc.phase = "running"

\* the first call of resolve made by the callbacks of runProcess
FirstResolve == proc.resolved[1]

CommandAndCacheFile ==
  /\ Len(argv) = 3
  /\ argv[2] = CacheFileFlag
  /\ ~ startsWith(argv[1], <<"-">>)

\* C22: parseArgs([cmd, '--cache-file', f]) returns command = cmd, cacheBuild =
\* false and cacheFile = f, for every cmd that does not start with '-' and
\* every file name f.
C22_CommandWithCacheFile ==
  (Started /\ CommandAndCacheFile) =>
     /\ parsedArgs.command = argv[1]
     /\ parsedArgs.cacheBuild = FALSE
     /\ parsedArgs.cacheFile = argv[3]

\* the memo key of the invocation f of discover
KeyOf(f) == Key(baseCommand, calls[f].args)

\* C23: within one run no two help acquisitions are started for the same memo
\* key, also not by two stubs of one batch that carry the same name.
C23_OneAcquisitionPerKey ==
  \A f, g \in DOMAIN calls : f # g => KeyOf(f) # KeyOf(g)

\* the stubs below the stub id, itself included
RECURSIVE StubsUnder(_, _)
StubsUnder(h, id) ==
  {id} \cup UNION {StubsUnder(h, h[id].subcommands[i]) : i \in DOMAIN h[id].subcommands}

\* an invocation of discover made for the stub s or for a stub below it has
\* not returned
Unfinished(s) ==
  \E h \in DOMAIN calls : calls[h].st # "done" /\ calls[h].stub \in StubsUnder(heap, s)

\* the batches of the node that the invocation p parsed
BatchesOfCall(p) == Batches(heap[calls[p].node].subcommands)

\* C24: the stubs of an expanded node are cut in list order into batches of at
\* most concurrencyLimit, and while a help acquisition for a stub of batch b is
\* in flight, every stub of the batches before b is fully expanded: no
\* invocation for it or for a stub below it is unfinished.
C24_BatchesInSequence ==
  \A g \in DOMAIN calls :
    (calls[g].st = "help" /\ calls[g].parent # 0) =>
      LET p == calls[g].parent
          b == calls[p].batch
      IN  /\ b \in DOMAIN BatchesOfCall(p)
          /\ \E j \in DOMAIN BatchesOfCall(p)[b] : BatchesOfCall(p)[b][j] = calls[g].stub
          /\ \A k \in DOMAIN BatchesOfCall(p) :
                Len(BatchesOfCall(p)[k]) \in 1..concurrencyLimit
          /\ \A k \in 1..(b - 1) :
                \A j \in DOMAIN BatchesOfCall(p)[k] : ~ Unfinished(BatchesOfCall(p)[k][j])

\* the invocation that parsed the node whose subcommands array holds the
\* object id (0: id is not a stub)
OwnerCall(cs, h, id) ==
  LET owners == {p \in DOMAIN cs :
                   /\ cs[p].node # 0
                   /\ \E j \in DOMAIN h[cs[p].node].subcommands :
                         h[cs[p].node].subcommands[j] = id}
  IN  IF owners = {} THEN 0 ELSE CHOOSE p \in owners : TRUE

\* what discover returned for the stub id of invocation p, in the state with
\* heap h, calls cs and memo table d: the object an invocation made for the
\* stub returned, or else what the memo and depth check answered at once
ExpansionOf(cs, h, d, p, id) ==
  LET made == {f \in DOMAIN cs : cs[f].parent = p /\ cs[f].stub = id}
      key  == Key(baseCommand, Append(cs[p].args, h[id].name))
  IN  IF made # {} THEN h[cs[CHOOSE f \in made : TRUE].ret]
      ELSE IF Has(d, key) THEN h[Get(d, key)]
      ELSE DefaultNode(baseCommand, Append(cs[p].args, h[id].name))

\* the invocation made for the stub id has returned, or none was made
Expanded(cs, id) == \A f \in DOMAIN cs : cs[f].stub = id => cs[f].st = "done"

\* one turn of the event loop changes the object id only by merging its
\* expansion into it
MergedOrUntouched(id) ==
  heap'[id] # heap[id] =>
    LET p == OwnerCall(calls', heap', id)
    IN  /\ p # 0
        /\ Expanded(calls', id)
        /\ LET subParsed == ExpansionOf(calls', heap', discovered', p, id)
           IN  /\ heap'[id].subcommands = subParsed.subcommands
               /\ heap'[id].options = subParsed.options
               /\ heap'[id].arguments = subParsed.arguments
               /\ heap'[id].name = heap[id].name
               /\ heap'[id].description =
                    IF heap[id].description = <<>> /\ subParsed.description # <<>>
                    THEN subParsed.description
                    ELSE heap[id].description

\* C25: a step changes an existing object only when the object is a stub whose
\* expansion has completed; the stub then has the expansion's subcommands,
\* options and arguments and its own name, and its description is the
\* expansion's only if its own was empty and the expansion's is not; every
\* other object, the other stubs of the parent included, is left as it was.
C25_MergeFrame ==
  [][\A id \in DOMAIN heap : MergedOrUntouched(id)]_vars

\* a resolved run in which a node with two or more stubs, all parsed without a
\* description, had the described expansion of one merged into it
C25_Witness ==
  /\ Resolved
  /\ \E f \in ReturnedStubCalls :
        /\ calls[f].node # 0
        /\ ParsedOf(calls[f].parent).subcommands # <<>>
        /\ \A j \in DOMAIN ParsedOf(calls[f].parent).subcommands :
              ParsedOf(calls[f].parent).subcommands[j].description = <<>>
        /\ heap[calls[f].stub].description = heap[calls[f].node].description
        /\ heap[calls[f].stub].description # <<>>
        /\ Len(heap[calls[calls[f].parent].node].subcommands) >= 2

\* the invocations whose stubs were dispatched: they parsed a node above the
\* depth bound
Dispatching == {p \in DOMAIN calls : calls[p].node # 0 /\ ExpandsChildren(calls[p].depth)}

\* the stub id of invocation p holds the fields of what discover returned for
\* it: the object returned by the invocation made for it, or a node parsed for
\* its key (memo table), or the default node (depth check)
MergedStub(p, id) ==
  LET made == {f \in DOMAIN calls : calls[f].parent = p /\ calls[f].stub = id}
      key  == Key(baseCommand, Append(calls[p].args, heap[id].name))
      same(node) == /\ heap[id].subcommands = node.subcommands
                    /\ heap[id].options = node.options
                    /\ heap[id].arguments = node.arguments
  IN  IF made # {}
      THEN \A f \in made : calls[f].st = "done" /\ same(heap[calls[f].ret])
      ELSE IF \E f \in DOMAIN calls : calls[f].node # 0 /\ KeyOf(f) = key
      THEN \E f \in DOMAIN calls :
              calls[f].node # 0 /\ KeyOf(f) = key /\ same(heap[calls[f].node])
      ELSE IsBare(heap[id])

\* C26: when the promise of discoverAllCommands has resolved, no help
\* acquisition of the run is unsettled, every invocation of discover has
\* returned, and every stub that was dispatched holds its expansion, so that
\* no continuation is left that could change the returned tree; also when a
\* stub was answered from the memo table with a node still being expanded.
C26_NothingPendingAtReturn ==
  Resolved =>
    /\ InFlight = {}
    /\ \A f \in DOMAIN calls : calls[f].st = "done"
    /\ \A p \in Dispatching :
          \A j \in DOMAIN heap[calls[p].node].subcommands :
             MergedStub(p, heap[calls[p].node].subcommands[j])

\* a resolved run in which a stub was answered from the memo table with a node
\* whose own stub was expanded later (x parsed after f's node returned for
\* the stub s of p)
C26_Witness ==
  /\ Resolved
  /\ \E p \in Dispatching, f, x \in DOMAIN calls :
        /\ calls[f].node # 0 /\ calls[x].node # 0
        /\ calls[x].parent = f
        /\ calls[p].at < calls[x].at
        /\ calls[f].at < calls[p].at
        /\ \E j \in DOMAIN heap[calls[p].node].subcommands :
              LET s == heap[calls[p].node].subcommands[j]
              IN  /\ \A g \in DOMAIN calls : calls[g].stub # s
                  /\ Key(baseCommand, Append(calls[p].args, heap[s].name)) = KeyOf(f)
                  /\ heap[s].subcommands = heap[calls[f].node].subcommands
                  /\ heap[s].subcommands # <<>>

\* the section lines from..to, trimmed, each after a space
RECURSIVE SpaceJoined(_, _, _)
SpaceJoined(content, from, to) ==
  IF from > to THEN <<>>
  ELSE <<" ">> \o trim(content[from]) \o SpaceJoined(content, from + 1, to)

\* what a span says about the call of extractMultiLineDescription it records
SpanAsClaimed(sp) ==
  LET content == scan.sections[sp.section].content
  IN  /\ sp.startIndex <= sp.endIndex
      /\ sp.endIndex <= Len(content)
      /\ sp.description = sp.initial \o SpaceJoined(content, sp.startIndex + 1, sp.endIndex)

\* the lines a span uses: its entry line and its continuation lines
LinesOf(sp) == {<<sp.section, j>> : j \in sp.startIndex..sp.endIndex}

Scanned == scan.phase \in {"scanning", "returned"}

\* the scan is at a line or just past the last line of a section, or past the
\* last section
CursorInRange ==
  /\ scan.k \in 1..(Len(scan.sections) + 1)
  /\ scan.k <= Len(scan.sections) =>
       scan.i \in 1..(Len(scan.sections[scan.k].content) + 1)

\* an iteration moves the cursor forward, and after a push to the line after
\* the span's endIndex
CursorAdvances ==
  (scan.phase = "scanning" /\ scan'.phase = "scanning") =>
     /\ scan'.k > scan.k \/ (scan'.k = scan.k /\ scan'.i > scan.i)
     /\ Len(scan'.spans) > Len(scan.spans) =>
          LET sp == scan'.spans[Len(scan'.spans)]
          IN  /\ sp.section = scan.k /\ sp.startIndex = scan.i
              /\ scan'.k = scan.k /\ scan'.i = sp.endIndex + 1

\* C27: every call of extractMultiLineDescription made at an entry line of a
\* section returns an endIndex from startIndex up to the last line of the
\* section, with exactly the lines after the entry line up to endIndex
\* appended to the description, each after a space; the scan resumes at the
\* line after endIndex; no section line is used by two subcommands; and the
\* cursor only moves forward within its range, so the scan ends, with the
\* subcommands parseSubcommandsFromText returns.
C27_CursorAndSpans ==
  /\ [](Scanned =>
          /\ CursorInRange
          /\ \A a \in DOMAIN scan.spans : SpanAsClaimed(scan.spans[a])
          /\ \A a, b \in DOMAIN scan.spans :
                a # b => LinesOf(scan.spans[a]) \cap LinesOf(scan.spans[b]) = {}
          /\ Len(scan.spans) = Len(scan.subcommands)
          /\ scan.phase = "returned" =>
                scan.subcommands = parseSubcommandsFromText(helpText))
  /\ [][CursorAdvances]_vars

\* a finished scan in which one entry took a continuation line, another took
\* none although a line followed it, and one took the last line of its section
C27_Witness ==
  /\ scan.phase = "returned"
  /\ \E a, b, c \in DOMAIN scan.spans :
        /\ scan.spans[a].endIndex = scan.spans[a].startIndex + 1
        /\ scan.spans[b].endIndex = scan.spans[b].startIndex
        /\ scan.spans[b].startIndex < Len(scan.sections[scan.spans[b].section].content)
        /\ scan.spans[c].endIndex = Len(scan.sections[scan.spans[c].section].content)
        /\ scan.spans[c].endIndex > scan.spans[c].startIndex
        /\ a # b

\* the path segments the visited node v builds its tool name from
SegmentsOf(v) == filterNe(Append(v.parentPath, heap[v.id].name), baseCommand)

\* the nodes convertCommandToTools visits
Visited == Nodes(heap, result, <<>>, MaxPathDepth)

\* C28: convertCommandToTools returns on every structure, also one in which a
\* node is its own subcommand, and every tool it emits besides the root's is
\* the name some visited node builds from at most MaxPathDepth path segments.
C28_AtMostTenSegments ==
  Converted =>
    \A i \in DOMAIN tools :
       \/ i = 1 /\ tools[i].name = baseCommand
       \/ \E k \in DOMAIN Visited :
             /\ Visited[k].parentPath # <<>>
             /\ ComputedName(heap, Visited[k], baseCommand) = <<tools[i].name>>
             /\ Len(SegmentsOf(Visited[k])) <= MaxPathDepth

\* the most segments of a tool name: the root's name is one of them unless it
\* is the base command's
SegmentBound == IF RootIsBase THEN MaxPathDepth ELSE MaxPathDepth + 1

\* C28, amended: convertCommandToTools returns on every structure, also one in
\* which a node is its own subcommand, and every tool it emits besides the
\* root's is the name some visited node builds from at most MaxPathDepth path
\* segments when the root is named like the base command, and from at most
\* one more otherwise.
C28_SegmentsBounded ==
  Converted =>
    \A i \in DOMAIN tools :
       \/ i = 1 /\ tools[i].name = baseCommand
       \/ \E k \in DOMAIN Visited :
             /\ Visited[k].parentPath # <<>>
             /\ ComputedName(heap, Visited[k], baseCommand) = <<tools[i].name>>
             /\ Len(SegmentsOf(Visited[k])) <= SegmentBound

\* a converted structure in which a node is its own subcommand, with a tool
\* built from exactly MaxPathDepth segments
C28_Witness ==
  /\ Converted
  /\ \E id \in DOMAIN heap :
        \E j \in DOMAIN heap[id].subcommands : heap[id].subcommands[j] = id
  /\ \E i \in DOMAIN tools, k \in DOMAIN Visited :
        /\ ComputedName(heap, Visited[k], baseCommand) = <<tools[i].name>>
        /\ Len(SegmentsOf(Visited[k])) = MaxPathDepth
        /\ Len(split(tools[i].name, "-")) = MaxPathDepth

\* the cache file holds a cache of the command named first on the command line
CacheOfNamedCommand ==
  /\ loadCommandCache(cacheContent) # NoCache
  /\ loadCommandCache(cacheContent).command = argv[1]

\* C29: started as `<command> --cache-file <file>`, the program serves the
\* command the user named, whatever the file is called: it takes the tree from
\* the cache only if the cache loads and records that very command, and
\* otherwise it discovers the named command.
C29_ServesNamedCommand ==
  (Started /\ CommandAndCacheFile) =>
     /\ startup.command = argv[1]
     /\ startup.from = "cache" => CacheOfNamedCommand
     /\ startup.from # "cache" => startup.phase = "discovering"

\* startMcpServer has registered its tools
Registered == registered.phase = "registered"

\* how many times the name was handed to server.registerTool
RECURSIVE TimesRegistered(_, _)
TimesRegistered(names, name) ==
  IF names = <<>> THEN 0
  ELSE (IF names[1] = name THEN 1 ELSE 0) + TimesRegistered(Tail(names), name)

\* C30: during start-up no tool name is registered more than once: every
\* synthesized tool at most once and the fallback tool `execute` exactly once,
\* also when a subcommand's synthesized tool is named `execute`.
C30_EveryNameOnce ==
  Registered =>
     /\ \A i \in DOMAIN tools : TimesRegistered(registered.names, tools[i].name) <= 1
     /\ TimesRegistered(registered.names, ExecuteName) = 1

====
